---- MODULE Spec2Model ----
(***************************************************************************)
(* Lexical Resolution Engine of JapaLearn: script classification and       *)
(* conversion, fallback-chain generation, dictionary probing and the       *)
(* resolution cache.                                                       *)
(*                                                                         *)
(* Strings are sequences of Unicode code points (integers), so that the    *)
(* hiragana/katakana conversion is the code-point shift it is in the       *)
(* program and not an abstract relabelling.                                *)
(***************************************************************************)
EXTENDS Integers, Sequences, FiniteSets, TLC

VARIABLES
    gterm,      \* generator run: the term handed to generate
    gadapter,   \* generator run: state of the morphological adapter
    gcands,     \* generator run: the candidate sequence returned
    gphase,     \* generator run: "idle" | "done"
    req,        \* resolver: the state of each resolve request
    cache,      \* ResolutionCache: key -> CacheEntry or NoEntry
    cacheOrder, \* ResolutionCache: stored keys, least recently used first
    dicts,      \* languageCode -> configured DictionarySource list
    now,        \* the clock the cache reads
    dictVer,    \* history: number of dictionary changes so far
    hist,       \* history: how each request's outcome came about
    chist,      \* history: how each stored outcome came about
    conv,       \* converter run: the conversions applied to gterm, in order
    vr,         \* VoiceRecorder: its React state, its refs, the starts in flight
    recorders,  \* the MediaRecorders created so far, in order of creation
    page,       \* ConversationPage: scenario, conversation id, language
    sent,       \* the conversation requests handed to sendMessageMutation
    vhist,      \* history: how each recording was released and delivered
    lp,         \* useLongPress: its refs
    timers,     \* the timers useLongPress has set, in order of creation
    lpnow,      \* the clock the timers run on, in milliseconds
    lphist,     \* history: the presses and the onLongPress calls
    sp,         \* ShadowPractice: its React state, its last render, its refs
    sprecs,     \* the MediaRecorders ShadowPractice has created
    sphist,     \* history: the pointer, the attempts and how they ended
    inflight,   \* the send-message requests that have no response yet
    cm,         \* ChatMessage: which of its modals are open
    tp,         \* TranslationPanel: input box, requests, voice input
    rt,         \* VoiceRecorder: the recording timer and what drives it
    cs,         \* ConversationPage: the conversations and their requests in flight
    api,        \* the API client: the stored token and the requests made
    tts,        \* useTTS: its state, its audio elements, its plays in flight
    ptr         \* the pointer on the voice button: down or up, presses so far

genVars == <<gterm, gadapter, gcands, gphase>>

\* everything the resolver leaves alone
outsideEngine == <<gterm, gadapter, gcands, gphase, conv,
                   vr, recorders, page, sent, vhist, lp, timers, lpnow, lphist,
                   sp, sprecs, sphist, inflight, cm, tp, rt, cs, api, tts, ptr>>

shadowVars == <<sp, sprecs, sphist>>

clientVars == <<cs, api, tts, ptr>>

panelVars == <<sp, sprecs, sphist, inflight, cm, tp, rt, cs, api, tts, ptr>>

recorderVars == <<vr, recorders, page, sent, vhist>>

longPressVars == <<lp, timers, lpnow, lphist>>

engineVars == <<req, cache, cacheOrder, dicts, now, dictVer, hist, chist>>

vars == <<gterm, gadapter, gcands, gphase,
          req, cache, cacheOrder, dicts, now, dictVer, hist, chist, conv,
          vr, recorders, page, sent, vhist, lp, timers, lpnow, lphist,
          sp, sprecs, sphist, inflight, cm, tp, rt, cs, api, tts, ptr>>

-----------------------------------------------------------------------------
(* Bounds of the model *)

MaxTermLen == 3      \* length of the terms enumerated for the generator
MaxTime == 2         \* the clock stops here
MaxReloads == 1      \* dictionary changes in one behaviour
CacheCapacity == 2   \* configured upper bound on the number of cache entries

-----------------------------------------------------------------------------
(* Code points *)

\* ASCII letters
cI == 105
cK == 107
cU == 117
cA == 97
cT == 116
\* hiragana
hI   == 12356   \* U+3044
hU   == 12358   \* U+3046
hKa  == 12363   \* U+304B
hKu  == 12367   \* U+304F
hSo  == 12381   \* U+305D
hTa  == 12383   \* U+305F
hDa  == 12384   \* U+3060
hTsu == 12387   \* U+3063 (small tsu)
hTe  == 12390   \* U+3066
hNi  == 12395   \* U+306B
hRu  == 12427   \* U+308B
\* katakana
kI   == 12452   \* U+30A4
kKu  == 12463   \* U+30AF
\* kanji
jIku == 34892   \* U+884C

HIRAGANA_LO == 12353    \* U+3041
HIRAGANA_HI == 12447    \* U+309F
KATAKANA_LO == 12449    \* U+30A1
KATAKANA_HI == 12543    \* U+30FF
KANA_SHIFT_HI == 12438  \* U+3096, last hiragana with a katakana image at +0x60
KANA_OFFSET == 96       \* 0x60

-----------------------------------------------------------------------------
(* String helpers *)

EndsWith(w, s) ==
    /\ Len(w) >= Len(s)
    /\ SubSeq(w, Len(w) - Len(s) + 1, Len(w)) = s

DropLast(w, n) == SubSeq(w, 1, Len(w) - n)

Contains(seq, x) == \E i \in 1..Len(seq) : seq[i] = x

-----------------------------------------------------------------------------
(* ScriptClassifier *)

is_romaji(text) == \A i \in 1..Len(text) : text[i] < 128

is_hiragana(text) ==
    \A i \in 1..Len(text) :
        text[i] > 127 => (HIRAGANA_LO <= text[i] /\ text[i] <= HIRAGANA_HI)

is_katakana(text) ==
    \A i \in 1..Len(text) :
        text[i] > 127 => (KATAKANA_LO <= text[i] /\ text[i] <= KATAKANA_HI)

\* the branch order of the generator decides the kind of a string that
\* satisfies more than one predicate
classify(text) ==
    IF is_romaji(text) THEN "Romanized"
    ELSE IF is_hiragana(text) THEN "Hiragana"
    ELSE IF is_katakana(text) THEN "Katakana"
    ELSE "Other"

-----------------------------------------------------------------------------
(* ScriptConverter *)

\* hiragana -> katakana: the code-point shift, on the code points that have
\* an image; every other code point is left alone
hiragana_to_katakana_char(c) ==
    IF HIRAGANA_LO <= c /\ c <= KANA_SHIFT_HI THEN c + KANA_OFFSET ELSE c

\* mutant: the offset written in decimal
katakana_to_hiragana_char_Decimal(c) ==
    IF KATAKANA_LO <= c /\ c <= KANA_SHIFT_HI + KANA_OFFSET
    THEN c - 60 ELSE c

katakana_to_hiragana_char(c) ==
    IF KATAKANA_LO <= c /\ c <= KANA_SHIFT_HI + KANA_OFFSET
    THEN c - KANA_OFFSET ELSE c

hiragana_to_katakana(text) ==
    [i \in 1..Len(text) |-> hiragana_to_katakana_char(text[i])]

\* best-effort romanized -> hiragana: a doubled consonant gives the small tsu,
\* a known syllable gives its kana, anything else is copied
IsConsonant(c) == c \in {cK, cT}

Syllable2(a, b) ==
    CASE a = cK /\ b = cA -> <<hKa>>
      [] a = cK /\ b = cU -> <<hKu>>
      [] a = cT /\ b = cA -> <<hTa>>
      [] OTHER -> <<>>

Syllable1(a) ==
    CASE a = cI -> <<hI>>
      [] a = cU -> <<hU>>
      [] OTHER -> <<a>>

RECURSIVE romaji_to_hiragana(_)
romaji_to_hiragana(text) ==
    IF text = <<>> THEN <<>>
    ELSE IF Len(text) >= 2 /\ IsConsonant(text[1]) /\ text[2] = text[1]
         THEN <<hTsu>> \o romaji_to_hiragana(Tail(text))
    ELSE IF Len(text) >= 2 /\ Syllable2(text[1], text[2]) # <<>>
         THEN Syllable2(text[1], text[2]) \o romaji_to_hiragana(Tail(Tail(text)))
    ELSE Syllable1(text[1]) \o romaji_to_hiragana(Tail(text))

\* maximal ASCII runs are transliterated, everything else is shifted
RECURSIVE AsciiRunLen(_)
AsciiRunLen(text) ==
    IF text = <<>> \/ text[1] >= 128 THEN 0 ELSE 1 + AsciiRunLen(Tail(text))

RECURSIVE to_hiragana(_)
to_hiragana(text) ==
    IF text = <<>> THEN <<>>
    ELSE IF text[1] < 128
         THEN LET n == AsciiRunLen(text)
              IN  romaji_to_hiragana(SubSeq(text, 1, n))
                      \o to_hiragana(SubSeq(text, n + 1, Len(text)))
    ELSE <<katakana_to_hiragana_char(text[1])>> \o to_hiragana(Tail(text))

to_katakana(text) == hiragana_to_katakana(to_hiragana(text))

-----------------------------------------------------------------------------
(* MorphologicalAdapter *)

AdapterStates == {"up", "notokens", "down"}

\* the outcome of a call to a collaborator: a value, or an error raised
Ok(v) == [raised |-> FALSE, value |-> v]
Raise == [raised |-> TRUE, value |-> <<>>]

\* the analyser's dictionary form of the first token of a word
dictionary_form(word) ==
    IF EndsWith(word, <<hTsu, hTa>>) /\ Len(word) > 2
        THEN DropLast(word, 2) \o <<hKu>>              \* itta -> iku
    ELSE IF EndsWith(word, <<hTe, hI, hRu>>) /\ Len(word) > 3
        THEN DropLast(word, 3) \o <<hRu>>              \* tabeteiru -> taberu
    ELSE IF EndsWith(word, <<hDa>>) /\ Len(word) > 1
        THEN DropLast(word, 1)                         \* shizukada -> shizuka
    ELSE word

\* the analyser's token list: empty for the empty text or when it finds
\* nothing, an error when the analyser is unavailable
tokenize(adapter, word) ==
    IF adapter = "down" THEN Raise
    ELSE IF adapter = "notokens" \/ word = <<>> THEN Ok(<<>>)
    ELSE Ok(<<[surface |-> word, dictionary_form |-> dictionary_form(word)]>>)

\* mutant: the surface form is returned for the dictionary form
get_root_form_Surface(adapter, word) ==
    IF adapter = "down" THEN Raise ELSE Ok(word)

get_root_form(adapter, word) ==
    LET tokens == tokenize(adapter, word)
    IN  IF tokens.raised THEN Raise
        ELSE IF tokens.value # <<>> THEN Ok(tokens.value[1].dictionary_form)
        ELSE Ok(word)

\* mutant: the failure of the analyser is passed on
rootForm_NoCatch(adapter, word) == get_root_form(adapter, word)

\* rootForm of the adapter contract: a failure of the analyser degrades to
\* the input unchanged
rootForm(adapter, word) ==
    LET r == get_root_form(adapter, word)
    IN  IF r.raised THEN Ok(word) ELSE r

-----------------------------------------------------------------------------
(* FallbackChainGenerator *)

MAX_CANDIDATES == 8
MIN_TERM_LENGTH == 2
MAX_SUFFIX_MATCHES == 2

SUFFIXES == << <<hSo, hU, hNi>>, <<hTe, hI, hRu>>, <<hTa>>, <<hDa>> >>

Terms(cands) == [i \in 1..Len(cands) |-> cands[i].term]

\* mutant: every step is appended, as in a chain built without deduplication
AppendNew_Always(cands, t, origin) ==
    Append(cands, [term |-> t, origin |-> origin])

\* a step of the chain: appended only if it differs from all terms collected
AppendNew(cands, t, origin) ==
    IF Contains(Terms(cands), t) THEN cands
    ELSE Append(cands, [term |-> t, origin |-> origin])

\* mutant: both conversions are appended first, their root forms after them
ScriptSiblings_RootsLast(adapter, cands, term) ==
    LET kind == classify(term)
        hiragana == to_hiragana(term)
        katakana == to_katakana(term)
    IN  IF kind = "Romanized" THEN
            LET c1 == AppendNew(cands, hiragana, "Hiragana")
                c2 == AppendNew(c1, katakana, "Katakana")
                c3 == AppendNew(c2, rootForm(adapter, hiragana).value, "RootForm")
            IN  AppendNew(c3, rootForm(adapter, katakana).value, "RootForm")
        ELSE IF kind = "Hiragana" THEN AppendNew(cands, katakana, "Katakana")
        ELSE IF kind = "Katakana" THEN AppendNew(cands, hiragana, "Hiragana")
        ELSE cands

ScriptSiblings(adapter, cands, term) ==
    LET kind == classify(term)
        hiragana == to_hiragana(term)
        katakana == to_katakana(term)
    IN  IF kind = "Romanized" THEN
            LET c1 == AppendNew(cands, hiragana, "Hiragana")
                c2 == AppendNew(c1, rootForm(adapter, hiragana).value, "RootForm")
                c3 == AppendNew(c2, katakana, "Katakana")
            IN  AppendNew(c3, rootForm(adapter, katakana).value, "RootForm")
        ELSE IF kind = "Hiragana" THEN AppendNew(cands, katakana, "Katakana")
        ELSE IF kind = "Katakana" THEN AppendNew(cands, hiragana, "Hiragana")
        ELSE cands

\* mutant: a stem of one character is accepted
SuffixMatches_AnyStem(term, suffix) ==
    EndsWith(term, suffix) /\ Len(term) > Len(suffix)

SuffixMatches(term, suffix) ==
    EndsWith(term, suffix) /\ Len(term) > Len(suffix) + 1

RECURSIVE StripSuffixes(_, _, _, _)
StripSuffixes(cands, term, k, matched) ==
    IF k > Len(SUFFIXES) \/ matched >= MAX_SUFFIX_MATCHES THEN cands
    ELSE IF SuffixMatches(term, SUFFIXES[k])
         THEN StripSuffixes(
                  AppendNew(cands, DropLast(term, Len(SUFFIXES[k])), "SuffixStripped"),
                  term, k + 1, matched + 1)
    ELSE StripSuffixes(cands, term, k + 1, matched)

Cap(cands) ==
    IF Len(cands) > MAX_CANDIDATES THEN SubSeq(cands, 1, MAX_CANDIDATES) ELSE cands

\* mutant: the chain holds the fallbacks only, the term itself is left out
generate_NoOriginal(adapter, term) ==
    IF Len(term) < MIN_TERM_LENGTH THEN Ok(<<[term |-> term, origin |-> "Original"]>>)
    ELSE IF rootForm(adapter, term).raised THEN Raise
    ELSE LET c1 == AppendNew(<<>>, rootForm(adapter, term).value, "RootForm")
             c2 == ScriptSiblings(adapter, c1, term)
             c3 == StripSuffixes(c2, term, 1, 0)
         IN  Ok(Cap(c3))

\* mutant: short terms are expanded like any other
generate_NoMinimum(adapter, term) ==
    LET c0 == <<[term |-> term, origin |-> "Original"]>>
    IN  IF rootForm(adapter, term).raised THEN Raise
        ELSE LET c1 == AppendNew(c0, rootForm(adapter, term).value, "RootForm")
                 c2 == ScriptSiblings(adapter, c1, term)
                 c3 == StripSuffixes(c2, term, 1, 0)
             IN  Ok(Cap(c3))

\* the candidates, or the error of the adapter if rootForm lets one through
generate(adapter, term) ==
    LET c0 == <<[term |-> term, origin |-> "Original"]>>
    IN  IF Len(term) < MIN_TERM_LENGTH THEN Ok(c0)
        ELSE IF rootForm(adapter, term).raised THEN Raise
        ELSE LET c1 == AppendNew(c0, rootForm(adapter, term).value, "RootForm")
                 c2 == ScriptSiblings(adapter, c1, term)
                 c3 == StripSuffixes(c2, term, 1, 0)
             IN  Ok(Cap(c3))

-----------------------------------------------------------------------------
(* The front end before anything has happened *)

\* VoiceRecorder after its first render: the useState and useRef initial
\* values; mediaRecorder = 0 is the null ref, pending counts the
\* getUserMedia calls that have not settled
VoiceRecorderInitial ==
    [isRecording |-> FALSE, isCancelled |-> FALSE, isCheckMode |-> FALSE,
     slideOffsetX |-> 0, slideOffsetY |-> 0, startX |-> 0, startY |-> 0,
     mediaRecorder |-> 0, pending |-> 0]

\* ConversationPage after its first render
PageInitial ==
    [selectedScenario |-> FALSE, conversationId |-> FALSE, language |-> "en",
     messages |-> <<>>, autoPlayTTS |-> FALSE]

\* no pointer move has been handled since the recorder last began to record
NoMove == [handled |-> FALSE, diffX |-> 0, diffY |-> 0]

RecorderIdle ==
    /\ vr = VoiceRecorderInitial
    /\ recorders = <<>>
    /\ page = PageInitial
    /\ sent = <<>>
    /\ vhist = [recordings |-> <<>>, lastMove |-> NoMove]

\* useLongPress after its first render; timeout = 0 is the undefined ref
LongPressInitial == [isLongPress |-> FALSE, timeout |-> 0, mounted |-> TRUE]

\* history of the hook: the clock advances so far; for each timer, whether a
\* release or mouse-leave was handled after it was set; the onLongPress
\* calls; whether the last release called onClick
NoPresses == [advances |-> 0, released |-> <<>>, calls |-> <<>>, clicked |-> FALSE]

LongPressIdle ==
    /\ lp = LongPressInitial
    /\ timers = <<>>
    /\ lpnow = 0
    /\ lphist = NoPresses

\* ShadowPractice after its first render: the state, the state as last
\* rendered, the null mediaRecorderRef, no getUserMedia call in flight
ShadowPracticeInitial ==
    [isRecording |-> FALSE, isProcessing |-> FALSE, result |-> "none",
     shown |-> [isRecording |-> FALSE, isProcessing |-> FALSE, result |-> "none"],
     mediaRecorder |-> 0, pending |-> <<>>]

NoAttempts == [pointer |-> "up", attempts |-> <<>>]

ShadowIdle ==
    /\ sp = ShadowPracticeInitial
    /\ sprecs = <<>>
    /\ sphist = NoAttempts

TypedText == -1

TranslationPanelInitial ==
    [inputText |-> 0, isRecording |-> FALSE, isProcessing |-> FALSE, error |-> FALSE,
     mediaRecorder |-> 0, starting |-> 0, recorders |-> <<>>, recognizing |-> {},
     requests |-> <<>>, answered |-> 0, result |-> 0, transcribed |-> <<>>,
     rejections |-> 0]

\* the state of a VoiceRecorder as far as its recording timer goes, after
\* the effect has run on mount
RecordingTimerInitial ==
    [isRecording |-> FALSE, isCancelled |-> FALSE, isCheckMode |-> FALSE,
     slideOffsetX |-> 0, slideOffsetY |-> 0, startX |-> 0, startY |-> 0,
     recordingTime |-> 0, timer |-> FALSE, elapsed |-> 0, recordings |-> 0]

\* ConversationPage after its first render, with no request made
SessionInitial ==
    [selectedScenario |-> 0, conversationId |-> 0, messages |-> <<>>,
     starting |-> {}, recognizing |-> {}, sending |-> {},
     selections |-> 0, voices |-> 0, ignored |-> 0]

\* the API client with nothing stored and no request made
ClientInitial == [token |-> 0, stores |-> 0, requests |-> <<>>]

\* a useTTS instance nobody has mounted: no host, nothing played
TtsInitial ==
    [host |-> "none", isPlaying |-> FALSE, isLoading |-> FALSE, error |-> FALSE,
     audioRef |-> 0, generating |-> 0, audios |-> <<>>, plays |-> 0, stops |-> 0]

\* no pointer on the voice button yet
PointerInitial == [down |-> FALSE, presses |-> 0]

PanelsIdle ==
    /\ ShadowIdle
    /\ inflight = {}
    /\ cm = <<>>
    /\ tp = TranslationPanelInitial
    /\ rt = RecordingTimerInitial
    /\ cs = SessionInitial
    /\ api = ClientInitial
    /\ tts = TtsInitial
    /\ ptr = PointerInitial

FrontEndIdle == RecorderIdle /\ LongPressIdle /\ PanelsIdle

-----------------------------------------------------------------------------
(* A run of the generator on one term *)

GenAlphabet == {cI, cK, cU, cT, cA, hI, hKu, hTsu, hTa, hDa, kI, kKu, jIku}

RECURSIVE SeqsUpTo(_, _)
SeqsUpTo(S, n) ==
    IF n = 0 THEN {<<>>}
    ELSE LET shorter == SeqsUpTo(S, n - 1)
         IN  shorter \cup {Append(w, c) : w \in {x \in shorter : Len(x) = n - 1}, c \in S}

\* longer words that carry the long suffixes
ExtraTerms == {
    <<hI, hTsu, hTe, hI, hRu>>,          \* itteiru
    <<hKa, hTe, hI, hRu>>,               \* kateiru
    <<hTe, hI, hRu>>,                    \* teiru
    <<jIku, hKa, hSo, hU, hNi>>,         \* a kanji stem with souni
    <<jIku, hKa, hDa>>,                  \* a kanji stem with da
    <<cI, cK, cK, cU>>,                  \* "ikku"
    <<cI, cT, cT, cA>>,                  \* "itta"
    <<cI, cK, cU, hTa>> }                \* mixed ASCII and hiragana

GenTerms == SeqsUpTo(GenAlphabet, MaxTermLen) \cup ExtraTerms

EngineIdle ==
    /\ req = <<>>
    /\ cache = <<>>
    /\ cacheOrder = <<>>
    /\ dicts = <<>>
    /\ now = 0
    /\ dictVer = 0
    /\ hist = <<>>
    /\ chist = <<>>

InitGen ==
    /\ EngineIdle
    /\ gterm \in GenTerms
    /\ gadapter \in AdapterStates
    /\ gcands = <<>>
    /\ gphase = "idle"
    /\ conv = <<>>
    /\ FrontEndIdle

Generate ==
    /\ gphase = "idle"
    /\ LET g == generate(gadapter, gterm)
       IN  /\ gcands' = g.value
           /\ gphase' = IF g.raised THEN "failed" ELSE "done"
    /\ UNCHANGED <<gterm, gadapter, conv>>
    /\ UNCHANGED engineVars
    /\ UNCHANGED <<recorderVars, longPressVars, panelVars>>

NextGen == Generate

SpecGen == InitGen /\ [][NextGen]_vars

-----------------------------------------------------------------------------
(* Converter run: conversions applied one after the other to a katakana term *)

MaxConversions == 3

\* katakana code points: the ends of the block and two letters; the last
\* code point of the block has no hiragana counterpart
KatakanaAlphabet == {KATAKANA_LO, kI, kKu, KATAKANA_HI}

KatakanaTerms == {k \in SeqsUpTo(KatakanaAlphabet, MaxTermLen) : k # <<>>}

InitConvert ==
    /\ EngineIdle
    /\ gterm \in KatakanaTerms
    /\ gadapter = "up"
    /\ gcands = <<>>
    /\ gphase = "idle"
    /\ conv = <<>>
    /\ FrontEndIdle

\* the text the next conversion is applied to
ConvInput == IF conv = <<>> THEN gterm ELSE conv[Len(conv)].text

ConvertToHiragana ==
    /\ Len(conv) < MaxConversions
    /\ conv' = Append(conv, [op |-> "toHiragana", text |-> to_hiragana(ConvInput)])
    /\ UNCHANGED genVars
    /\ UNCHANGED engineVars
    /\ UNCHANGED <<recorderVars, longPressVars, panelVars>>

ConvertToKatakana ==
    /\ Len(conv) < MaxConversions
    /\ conv' = Append(conv, [op |-> "toKatakana", text |-> to_katakana(ConvInput)])
    /\ UNCHANGED genVars
    /\ UNCHANGED engineVars
    /\ UNCHANGED <<recorderVars, longPressVars, panelVars>>

NextConvert == ConvertToHiragana \/ ConvertToKatakana

SpecConvert == InitConvert /\ [][NextConvert]_vars

-----------------------------------------------------------------------------
(* DictionarySource *)

Langs == {"ja", "zh"}

tItta == <<hI, hTsu, hTa>>
tIku  == <<hI, hKu>>
tIkuKatakana == <<kI, kKu>>
tIttaRomanized == <<cI, cT, cT, cA>>

\* search: the entries filed under the term, empty when nothing matches
search(source, term) ==
    IF term \in source.heads
    THEN <<[headword |-> term, sourceId |-> source.id]>>
    ELSE <<>>

JaSources(a, b) == <<[id |-> "A", heads |-> a], [id |-> "B", heads |-> b]>>

JaConfigs == { JaSources({}, {}), JaSources({tIku}, {tIku}),
               JaSources({tIku}, {tItta}), JaSources({}, {tIku}) }

ZhConfig == <<[id |-> "C", heads |-> {tItta}]>>

-----------------------------------------------------------------------------
(* ResolutionOutcome *)

NoEntry == [headword |-> <<>>, sourceId |-> ""]

Found(entry, matchedTerm, attemptedTerms) ==
    [tag |-> "Found", entry |-> entry, matchedTerm |-> matchedTerm,
     attemptedTerms |-> attemptedTerms]

\* mutant: a not-found that does not say what was tried
NotFound_Bare(attemptedTerms) ==
    [tag |-> "NotFound", entry |-> NoEntry, matchedTerm |-> <<>>,
     attemptedTerms |-> <<>>]

NotFound(attemptedTerms) ==
    [tag |-> "NotFound", entry |-> NoEntry, matchedTerm |-> <<>>,
     attemptedTerms |-> attemptedTerms]

InvalidInput ==
    [tag |-> "InvalidInput", entry |-> NoEntry, matchedTerm |-> <<>>,
     attemptedTerms |-> <<>>]

\* an error of a collaborator that reached the caller
Failed ==
    [tag |-> "Error", entry |-> NoEntry, matchedTerm |-> <<>>,
     attemptedTerms |-> <<>>]

NoOutcome ==
    [tag |-> "None", entry |-> NoEntry, matchedTerm |-> <<>>,
     attemptedTerms |-> <<>>]

-----------------------------------------------------------------------------
(* ResolutionCache *)

FOUND_TTL == 2
NOT_FOUND_TTL == 1

\* the calls made: (languageCode, term)
CallInputs == {<<"ja", <<>>>>, <<"ja", tItta>>, <<"zh", tItta>>, <<"ja", tIku>>}

\* the calls made with one term of each script
SiblingInputs == {<<"ja", tIttaRomanized>>, <<"ja", tIkuKatakana>>, <<"ja", tIku>>}

Keys == {k \in CallInputs \cup SiblingInputs : k[2] # <<>>}

NoCacheEntry == [present |-> FALSE, outcome |-> NoOutcome, createdAt |-> 0, ttl |-> 0]

\* mutant: one TTL for every outcome
TtlOf_Same(outcome) == FOUND_TTL

TtlOf(outcome) == IF outcome.tag = "Found" THEN FOUND_TTL ELSE NOT_FOUND_TTL

\* mutant: the entry keeps the result and drops what was tried
NewEntry_Truncated(outcome, t) ==
    [present |-> TRUE, outcome |-> [outcome EXCEPT !.attemptedTerms = <<>>],
     createdAt |-> t, ttl |-> TtlOf(outcome)]

NewEntry(outcome, t) ==
    [present |-> TRUE, outcome |-> outcome, createdAt |-> t, ttl |-> TtlOf(outcome)]

Expired(entry, t) == t >= entry.createdAt + entry.ttl

\* a read: the stored outcome if there is a non-expired entry
CacheGet(c, key, t) ==
    IF c[key].present /\ ~Expired(c[key], t) THEN c[key].outcome ELSE NoOutcome

Without(order, key) == SelectSeq(order, LAMBDA k : k # key)

\* recency order after the key was used
Touch(order, key) == Append(Without(order, key), key)

\* mutant: the most recently used key is evicted
Victim_MostRecent(order, key) ==
    IF ~Contains(order, key) /\ Len(order) >= CacheCapacity
    THEN <<order[Len(order)]>> ELSE <<>>

\* the key to evict when the key is stored: the least recently used one,
\* if the key is new and the cache is full
Victim(order, key) ==
    IF ~Contains(order, key) /\ Len(order) >= CacheCapacity
    THEN <<order[1]>> ELSE <<>>

\* mutant: a write over an entry keeps the attempts of the entry it replaces
CachePut_Merge(c, order, key, entry) ==
    LET v == Victim(order, key)
    IN  [k \in Keys |-> IF k = key
                        THEN IF c[k].present
                             THEN [entry EXCEPT !.outcome.attemptedTerms =
                                                   c[k].outcome.attemptedTerms]
                             ELSE entry
                        ELSE IF v # <<>> /\ k = v[1] THEN NoCacheEntry
                        ELSE c[k]]

CachePut(c, order, key, entry) ==
    LET v == Victim(order, key)
    IN  [k \in Keys |-> IF k = key THEN entry
                        ELSE IF v # <<>> /\ k = v[1] THEN NoCacheEntry
                        ELSE c[k]]

OrderPut(order, key) ==
    LET v == Victim(order, key)
    IN  Touch(IF v # <<>> THEN Tail(order) ELSE order, key)

-----------------------------------------------------------------------------
(* LexicalResolver *)

Requests == {1, 2}

IdleReq ==
    [pc |-> "Idle", lang |-> "", term |-> <<>>, cands |-> <<>>, ci |-> 0, si |-> 0,
     attempted |-> <<>>, outcome |-> NoOutcome, terminal |-> ""]

\* mutant: the key leaves the language out
KeyOf_TermOnly(r) == <<"ja", r.term>>

KeyOf(r) == <<r.lang, r.term>>

\* mutant: candidates in the inner loop, sources in the outer loop
NextProbe_SourcesOuter(ci, si, nCands, nSources) ==
    IF ci < nCands THEN <<ci + 1, si>>
    ELSE IF si < nSources THEN <<1, si + 1>>
    ELSE <<0, 0>>

\* the probe after (ci, si) came back empty: sources in the inner loop,
\* candidates in the outer loop; <<0, 0>> when nothing is left
NextProbe(ci, si, nCands, nSources) ==
    IF si < nSources THEN <<ci, si + 1>>
    ELSE IF ci < nCands THEN <<ci + 1, 1>>
    ELSE <<0, 0>>

\* mutant: the error of the source is passed on
SafeSearch_Propagates(source, term, raises) ==
    IF raises THEN Raise ELSE Ok(search(source, term))

\* a search of one source, an error of the source counting as no result
SafeSearch(source, term, raises) ==
    LET r == IF raises THEN Raise ELSE Ok(search(source, term))
    IN  IF r.raised THEN Ok(<<>>) ELSE r

\* mutant: the failure of the cache is passed on
SafeCacheGet_Propagates(c, key, t, fails) ==
    IF fails THEN Raise ELSE Ok(CacheGet(c, key, t))

\* a read of the cache, a failure of the cache counting as a miss
SafeCacheGet(c, key, t, fails) ==
    LET r == IF fails THEN Raise ELSE Ok(CacheGet(c, key, t))
    IN  IF r.raised THEN Ok(NoOutcome) ELSE r

\* mutant: the write is dropped
SafeCachePut_Dropped(c, order, key, entry, fails) == Ok(<<c, order>>)

\* a write of the cache, skipped when the cache fails: the new <<cache, order>>
SafeCachePut(c, order, key, entry, fails) ==
    LET r == IF fails THEN Raise
             ELSE Ok(<<CachePut(c, order, key, entry), OrderPut(order, key)>>)
    IN  IF r.raised THEN Ok(<<c, order>>) ELSE r

\* the call ends with an error that reached the caller
Abort(r) == [r EXCEPT !.pc = "Done", !.outcome = Failed, !.terminal = "Error"]

(* History of a call, read by the properties only.  A run records "all" of
   it, only the "versions" part, or "none". *)
NoHist ==
    [at |-> 0,             \* dictionary version when the call was made
     ver |-> 0,            \* dictionary version the outcome was computed against
     clean |-> TRUE,       \* every collaborator answered, no dictionary change
                           \* while probing, no timeout
     adapter |-> "",       \* state of the adapter when the chain was generated
     lastRaise |-> <<0, 0>>,   \* the last probe whose source raised
     timedOut |-> FALSE,   \* the caller's timeout ended the call
     evicted |-> <<>>,     \* the key the call's write evicted, if any
     cacheDown |-> TRUE,   \* every cache operation of the call failed
     stored |-> FALSE]     \* the call's write reached the cache

Recorded(m, h) ==
    IF m = "all" THEN h
    ELSE IF m = "versions"
         THEN [NoHist EXCEPT !.at = h.at, !.ver = h.ver, !.clean = h.clean]
    ELSE NoHist

NoCacheHist == [ver |-> 0, clean |-> TRUE]

Init ==
    /\ gterm = <<>>
    /\ gadapter = "up"
    /\ gcands = <<>>
    /\ gphase = "idle"
    /\ conv = <<>>
    /\ FrontEndIdle
    /\ req = [p \in Requests |-> IdleReq]
    /\ cache = [k \in Keys |-> NoCacheEntry]
    /\ cacheOrder = <<>>
    /\ dicts \in [ja : JaConfigs, zh : {ZhConfig}]
    /\ now = 0
    /\ dictVer = 0
    /\ hist = [p \in Requests |-> NoHist]
    /\ chist = [k \in Keys |-> NoCacheHist]

\* mutant: the term is not validated
Call_NoValidation(p, lang, term, m) ==
    /\ req[p].pc = "Idle"
    /\ req' = [req EXCEPT ![p] =
                 [IdleReq EXCEPT !.pc = "CacheCheck", !.lang = lang, !.term = term]]
    /\ hist' = [hist EXCEPT ![p] =
                  Recorded(m, [NoHist EXCEPT !.at = dictVer, !.ver = dictVer])]
    /\ UNCHANGED <<cache, cacheOrder, dicts, now, dictVer, chist>>
    /\ UNCHANGED outsideEngine

\* resolve(languageCode, term) is called
Call(p, lang, term, m) ==
    /\ req[p].pc = "Idle"
    /\ req' = [req EXCEPT ![p] =
                 IF term = <<>>
                 THEN [IdleReq EXCEPT !.pc = "Done", !.lang = lang, !.term = term,
                                      !.outcome = InvalidInput,
                                      !.terminal = "InvalidInput"]
                 ELSE [IdleReq EXCEPT !.pc = "CacheCheck", !.lang = lang,
                                      !.term = term]]
    /\ hist' = [hist EXCEPT ![p] =
                  Recorded(m, [NoHist EXCEPT !.at = dictVer, !.ver = dictVer])]
    /\ UNCHANGED <<cache, cacheOrder, dicts, now, dictVer, chist>>
    /\ UNCHANGED outsideEngine

\* CacheCheck: a non-expired entry is returned at once
CacheCheck(p, fails, m) ==
    /\ req[p].pc = "CacheCheck"
    /\ LET r == req[p]
           key == KeyOf(r)
           got == SafeCacheGet(cache, key, now, fails)
       IN  IF got.raised
           THEN /\ req' = [req EXCEPT ![p] = Abort(r)]
                /\ UNCHANGED <<cacheOrder, hist>>
           ELSE IF got.value.tag # "None"
           THEN /\ req' = [req EXCEPT ![p] =
                             [r EXCEPT !.pc = "Done", !.outcome = got.value,
                                       !.terminal = "CacheHit"]]
                /\ cacheOrder' = Touch(cacheOrder, key)
                /\ hist' = [hist EXCEPT ![p] =
                              Recorded(m, [@ EXCEPT !.clean = chist[key].clean,
                                                    !.ver = chist[key].ver,
                                                    !.cacheDown = FALSE])]
           ELSE /\ req' = [req EXCEPT ![p].pc = "Generating"]
                /\ UNCHANGED cacheOrder
                /\ hist' = [hist EXCEPT ![p] =
                              Recorded(m, [@ EXCEPT !.cacheDown = fails])]
    /\ UNCHANGED <<cache, dicts, now, dictVer, chist>>
    /\ UNCHANGED outsideEngine

\* Generating: the fallback chain is built
Generating(p, adapter, m) ==
    /\ req[p].pc = "Generating"
    /\ LET r == req[p]
           g == generate(adapter, r.term)
       IN  req' = [req EXCEPT ![p] =
             IF g.raised THEN Abort(r)
             ELSE [r EXCEPT !.pc = "Probing", !.cands = g.value,
                            !.ci = 1, !.si = 1,
                            !.attempted = <<g.value[1].term>>]]
    /\ hist' = [hist EXCEPT ![p] =
                  Recorded(m, [@ EXCEPT !.adapter = adapter,
                                        !.clean = (adapter = "up"),
                                        !.ver = dictVer])]
    /\ UNCHANGED <<cache, cacheOrder, dicts, now, dictVer, chist>>
    /\ UNCHANGED outsideEngine

\* Probing: one search; the first non-empty result ends the loop
Search(p, raises, m) ==
    /\ req[p].pc = "Probing"
    /\ LET r == req[p]
           sources == dicts[r.lang]
           term == r.cands[r.ci].term
           result == SafeSearch(sources[r.si], term, raises)
           next == NextProbe(r.ci, r.si, Len(r.cands), Len(sources))
       IN  req' = [req EXCEPT ![p] =
             IF result.raised THEN Abort(r)
             ELSE IF result.value # <<>>
             THEN [r EXCEPT !.pc = "Resolved",
                            !.outcome = Found(result.value[1], term, r.attempted)]
             ELSE IF next = <<0, 0>>
             THEN [r EXCEPT !.pc = "Exhausted",
                            !.outcome = NotFound(r.attempted)]
             ELSE [r EXCEPT !.ci = next[1], !.si = next[2],
                            !.attempted = IF next[1] # r.ci
                                          THEN Append(r.attempted, r.cands[next[1]].term)
                                          ELSE r.attempted]]
    /\ hist' = [hist EXCEPT ![p] =
                  Recorded(m, [@ EXCEPT
                      !.clean = @ /\ ~raises /\ hist[p].ver = dictVer,
                      !.lastRaise = IF raises THEN <<req[p].ci, req[p].si>> ELSE @])]
    /\ UNCHANGED <<cache, cacheOrder, dicts, now, dictVer, chist>>
    /\ UNCHANGED outsideEngine

\* Resolved / Exhausted: the outcome is cached and returned; a failing cache
\* is skipped
Store(p, fails, m) ==
    /\ req[p].pc \in {"Resolved", "Exhausted"}
    /\ LET r == req[p]
           key == KeyOf(r)
           w == SafeCachePut(cache, cacheOrder, key, NewEntry(r.outcome, now), fails)
       IN  IF w.raised
           THEN /\ req' = [req EXCEPT ![p] = Abort(r)]
                /\ UNCHANGED <<cache, cacheOrder, hist, chist>>
           ELSE /\ req' = [req EXCEPT ![p].pc = "Done", ![p].terminal = r.pc]
                /\ cache' = w.value[1]
                /\ cacheOrder' = w.value[2]
                /\ hist' = [hist EXCEPT ![p] =
                              Recorded(m, [@ EXCEPT
                                  !.cacheDown = @ /\ fails,
                                  !.stored = ~fails,
                                  !.evicted = IF fails \/ cache' = cache THEN <<>>
                                              ELSE SelectSeq(cacheOrder,
                                                     LAMBDA k : ~cache'[k].present)])]
                /\ chist' = IF fails \/ m # "versions" THEN chist
                            ELSE [chist EXCEPT ![key] =
                                    [ver |-> hist[p].ver, clean |-> hist[p].clean]]
    /\ UNCHANGED <<dicts, now, dictVer>>
    /\ UNCHANGED outsideEngine

\* mutant: the timeout returns what the probe in progress was looking for
Timeout_Partial(p, m) ==
    /\ req[p].pc = "Probing"
    /\ req' = [req EXCEPT ![p].pc = "Done",
                          ![p].outcome = Found(NoEntry, req[p].cands[req[p].ci].term,
                                               req[p].attempted),
                          ![p].terminal = "Exhausted"]
    /\ hist' = [hist EXCEPT ![p] = Recorded(m, [@ EXCEPT !.clean = FALSE, !.timedOut = TRUE])]
    /\ UNCHANGED <<cache, cacheOrder, dicts, now, dictVer, chist>>
    /\ UNCHANGED outsideEngine

\* the caller's overall timeout fires while probing
Timeout(p, m) ==
    /\ req[p].pc = "Probing"
    /\ req' = [req EXCEPT ![p].pc = "Done",
                          ![p].outcome = NotFound(req[p].attempted),
                          ![p].terminal = "Exhausted"]
    /\ hist' = [hist EXCEPT ![p] = Recorded(m, [@ EXCEPT !.clean = FALSE, !.timedOut = TRUE])]
    /\ UNCHANGED <<cache, cacheOrder, dicts, now, dictVer, chist>>
    /\ UNCHANGED outsideEngine

\* the caller takes the outcome
Return(p) ==
    /\ req[p].pc = "Done"
    /\ req' = [req EXCEPT ![p] = IdleReq]
    /\ hist' = [hist EXCEPT ![p] = NoHist]
    /\ UNCHANGED <<cache, cacheOrder, dicts, now, dictVer, chist>>
    /\ UNCHANGED outsideEngine

Tick ==
    /\ now < MaxTime
    /\ now' = now + 1
    /\ UNCHANGED <<req, cache, cacheOrder, dicts, dictVer, hist, chist>>
    /\ UNCHANGED outsideEngine

\* a dictionary change: the source list of a language is swapped
Reload(config) ==
    /\ dictVer < MaxReloads
    /\ config # dicts.ja
    /\ dicts' = [dicts EXCEPT !.ja = config]
    /\ dictVer' = dictVer + 1
    /\ UNCHANGED <<req, cache, cacheOrder, now, hist, chist>>
    /\ UNCHANGED outsideEngine

\* the calls made in the runs with a clock, and the dictionaries configured
CacheInputs == {<<"ja", tIku>>}

CacheConfigs == { JaSources({}, {}), JaSources({}, {tIku}), JaSources({tIku}, {tIku}) }

InitCache ==
    /\ Init
    /\ dicts.ja \in CacheConfigs

\* the calls made by concurrent requests: they contend for one key
ConcInputs == {<<"ja", tIku>>}

\* calls one after the other: request 1 is the earlier call, kept until the
\* later calls, made as request 2, have been compared with it
MayCall(p) == IF p = 1 THEN req[2].pc = "Idle" ELSE req[1].pc = "Done"
MayReturn(p) == p = 1 => req[2].pc = "Idle"

\* one resolve at a time, every input, every failure; no clock
NextResolve ==
    \/ \E inp \in CallInputs : Call(1, inp[1], inp[2], "all")
    \/ \E fails \in BOOLEAN : CacheCheck(1, fails, "all")
    \/ \E adapter \in AdapterStates : Generating(1, adapter, "all")
    \/ \E raises \in BOOLEAN : Search(1, raises, "all")
    \/ \E fails \in BOOLEAN : Store(1, fails, "all")
    \/ Timeout(1, "all")
    \/ Return(1)

SpecResolve == Init /\ [][NextResolve]_vars

\* one resolve at a time, for a romanized, a katakana and a hiragana term
NextSiblings ==
    \/ \E inp \in SiblingInputs : Call(1, inp[1], inp[2], "all")
    \/ \E fails \in BOOLEAN : CacheCheck(1, fails, "all")
    \/ \E adapter \in AdapterStates : Generating(1, adapter, "all")
    \/ \E raises \in BOOLEAN : Search(1, raises, "all")
    \/ \E fails \in BOOLEAN : Store(1, fails, "all")
    \/ Timeout(1, "all")
    \/ Return(1)

SpecSiblings == Init /\ [][NextSiblings]_vars

\* calls one after the other, with the clock and dictionary changes
NextCache ==
    \/ \E p \in Requests, inp \in CacheInputs :
          MayCall(p) /\ Call(p, inp[1], inp[2], "versions")
    \/ \E p \in Requests, fails \in BOOLEAN : CacheCheck(p, fails, "versions")
    \/ \E p \in Requests, adapter \in AdapterStates : Generating(p, adapter, "versions")
    \/ \E p \in Requests, raises \in BOOLEAN : Search(p, raises, "versions")
    \/ \E p \in Requests, fails \in BOOLEAN : Store(p, fails, "versions")
    \/ \E p \in Requests : Timeout(p, "versions")
    \/ \E p \in Requests : MayReturn(p) /\ Return(p)
    \/ Tick
    \/ \E config \in CacheConfigs : Reload(config)

SpecCache == InitCache /\ [][NextCache]_vars

\* concurrent requests
Next ==
    \/ \E p \in Requests, inp \in ConcInputs : Call(p, inp[1], inp[2], "none")
    \/ \E p \in Requests, fails \in BOOLEAN : CacheCheck(p, fails, "none")
    \/ \E p \in Requests, adapter \in AdapterStates : Generating(p, adapter, "none")
    \/ \E p \in Requests, raises \in BOOLEAN : Search(p, raises, "none")
    \/ \E p \in Requests, fails \in BOOLEAN : Store(p, fails, "none")
    \/ \E p \in Requests : Timeout(p, "none")
    \/ \E p \in Requests : Return(p)

Spec == Init /\ [][Next]_vars

\* the steps the engine takes for request p; the call, the timeout and the
\* return are the caller's
Work(p) ==
    \/ \E fails \in BOOLEAN : CacheCheck(p, fails, "none")
    \/ \E adapter \in AdapterStates : Generating(p, adapter, "none")
    \/ \E raises \in BOOLEAN : Search(p, raises, "none")
    \/ \E fails \in BOOLEAN : Store(p, fails, "none")

\* every request runs as a task of its own that the scheduler keeps running
SpecLive == Spec /\ \A p \in Requests : WF_vars(Work(p))

-----------------------------------------------------------------------------
(* VoiceRecorder (components/VoiceRecorder.tsx) and the ConversationPage    *)
(* that hosts it (pages/ConversationPage.tsx)                               *)

threshold == 100        \* pixels to slide
MaxRecordings == 2      \* recordings started in one behaviour

Abs(x) == IF x < 0 THEN -x ELSE x
Min(a, b) == IF a < b THEN a ELSE b

\* where the pointer goes down, and where it moves to
DownCoords == {threshold}
MoveCoords == {0, 1, threshold, 2 * threshold}

\* everything VoiceRecorder and ConversationPage leave alone
outsideRecorder == <<genVars, conv, engineVars, longPressVars, panelVars>>

BackEndIdle ==
    /\ EngineIdle
    /\ gterm = <<>>
    /\ gadapter = "up"
    /\ gcands = <<>>
    /\ gphase = "idle"
    /\ conv = <<>>

\* the onstop property of a MediaRecorder nobody has set
NoHandler ==
    [set |-> FALSE, checkMode |-> FALSE, isCancelled |-> FALSE,
     onCheckSentence |-> FALSE, language |-> "en", conversationId |-> FALSE]

\* the MediaRecorder startRecording creates and starts
NewMediaRecorder ==
    [state |-> "recording", onstop |-> NoHandler,
     stopQueued |-> FALSE, tracksStopped |-> FALSE]

\* history of one recording: how it was released, the language of the page
\* at that moment, the callback its stop event invoked
NoRelease == [released |-> "none", language |-> "none", delivered |-> "none"]

\* the onCheckSentence prop ConversationPage hands to VoiceRecorder: present
\* or undefined
onCheckSentence_Always(pg) == TRUE

onCheckSentence(pg) == pg.language = "ja"

\* the closure stopRecording installs as onstop: it keeps the values of the
\* render in which the pointer was released
Handler(checkMode) ==
    [set |-> TRUE, checkMode |-> checkMode, isCancelled |-> vr.isCancelled,
     onCheckSentence |-> onCheckSentence(page), language |-> page.language,
     conversationId |-> page.conversationId]

\* MediaRecorder.stop(): inactive at once, the stop event queued
Stop(r) == [r EXCEPT !.state = "inactive", !.stopQueued = TRUE]

InitRecorder ==
    /\ BackEndIdle
    /\ RecorderIdle
    /\ LongPressIdle
    /\ PanelsIdle

\* ConversationPage.handleScenarioSelect: the recorder is rendered from now on
HandleScenarioSelect ==
    /\ ~page.selectedScenario
    /\ page' = [page EXCEPT !.selectedScenario = TRUE]
    /\ UNCHANGED <<vr, recorders, sent, vhist>>
    /\ UNCHANGED outsideRecorder

\* a message of the list: send is the request made for a user message, or
\* the request an assistant message answers (0 for the starter); audioUrl is
\* the request whose response supplied user_audio_url (0 for none)
StarterMessage == [role |-> "assistant", send |-> 0, audioUrl |-> 0]

\* startConversationMutation.onSuccess
StartConversationSuccess ==
    /\ page.selectedScenario
    /\ ~page.conversationId
    /\ page' = [page EXCEPT !.conversationId = TRUE, !.messages = <<StarterMessage>>]
    /\ UNCHANGED <<vr, recorders, sent, vhist>>
    /\ UNCHANGED outsideRecorder

\* the two language buttons
SetLanguage ==
    /\ page.selectedScenario
    /\ \E l \in {"en", "ja"} : page' = [page EXCEPT !.language = l]
    /\ UNCHANGED <<vr, recorders, sent, vhist>>
    /\ UNCHANGED outsideRecorder

\* handlePointerDown, up to the await in startRecording
handlePointerDown(v, x, y) ==
    [v EXCEPT !.startX = x, !.startY = y, !.pending = @ + 1]

PointerDown ==
    /\ page.selectedScenario
    /\ Len(recorders) + vr.pending < MaxRecordings
    /\ \E x \in DownCoords, y \in DownCoords : vr' = handlePointerDown(vr, x, y)
    /\ UNCHANGED <<recorders, page, sent, vhist>>
    /\ UNCHANGED outsideRecorder

\* startRecording after getUserMedia has resolved
StartRecordingResolved ==
    /\ vr.pending > 0
    /\ recorders' = Append(recorders, NewMediaRecorder)
    /\ vr' = [vr EXCEPT !.pending = @ - 1,
                        !.mediaRecorder = Len(recorders) + 1,
                        !.isRecording = TRUE,
                        !.isCancelled = FALSE,
                        !.isCheckMode = FALSE,
                        !.slideOffsetX = 0,
                        !.slideOffsetY = 0]
    /\ vhist' = [recordings |-> Append(vhist.recordings, NoRelease), lastMove |-> NoMove]
    /\ UNCHANGED <<page, sent>>
    /\ UNCHANGED outsideRecorder

\* startRecording after getUserMedia has rejected: the catch
StartRecordingFailed ==
    /\ vr.pending > 0
    /\ vr' = [vr EXCEPT !.pending = @ - 1]
    /\ UNCHANGED <<recorders, page, sent, vhist>>
    /\ UNCHANGED outsideRecorder

\* mutant: without the reset of both modes at the start of the handler
handlePointerMove_NoReset(v, x, y) ==
    LET diffX == v.startX - x
        diffY == v.startY - y
    IN  IF diffX > 0 /\ Abs(diffX) > Abs(diffY)
        THEN [v EXCEPT !.isCancelled = @ \/ diffX >= threshold,
                       !.slideOffsetX = Min(diffX, threshold + 20),
                       !.slideOffsetY = 0]
        ELSE IF diffY > 0 /\ Abs(diffY) > Abs(diffX)
        THEN [v EXCEPT !.isCheckMode = @ \/ diffY >= threshold,
                       !.slideOffsetX = 0,
                       !.slideOffsetY = Min(diffY, threshold + 20)]
        ELSE [v EXCEPT !.slideOffsetX = 0,
                       !.slideOffsetY = 0]

handlePointerMove_NoDominance(v, x, y) ==
    LET diffX == v.startX - x
        diffY == v.startY - y
    IN  IF diffX > 0
        THEN [v EXCEPT !.isCancelled = diffX >= threshold,
                       !.isCheckMode = FALSE,
                       !.slideOffsetX = Min(diffX, threshold + 20),
                       !.slideOffsetY = 0]
        ELSE IF diffY > 0
        THEN [v EXCEPT !.isCancelled = FALSE,
                       !.isCheckMode = diffY >= threshold,
                       !.slideOffsetX = 0,
                       !.slideOffsetY = Min(diffY, threshold + 20)]
        ELSE [v EXCEPT !.isCancelled = FALSE,
                       !.isCheckMode = FALSE,
                       !.slideOffsetX = 0,
                       !.slideOffsetY = 0]

handlePointerMove(v, x, y) ==
    LET diffX == v.startX - x     \* positive = left slide
        diffY == v.startY - y     \* positive = up slide
    IN  IF diffX > 0 /\ Abs(diffX) > Abs(diffY)
        THEN [v EXCEPT !.isCancelled = diffX >= threshold,
                       !.isCheckMode = FALSE,
                       !.slideOffsetX = Min(diffX, threshold + 20),
                       !.slideOffsetY = 0]
        ELSE IF diffY > 0 /\ Abs(diffY) > Abs(diffX)
        THEN [v EXCEPT !.isCancelled = FALSE,
                       !.isCheckMode = diffY >= threshold,
                       !.slideOffsetX = 0,
                       !.slideOffsetY = Min(diffY, threshold + 20)]
        ELSE [v EXCEPT !.isCancelled = FALSE,
                       !.isCheckMode = FALSE,
                       !.slideOffsetX = 0,
                       !.slideOffsetY = 0]

PointerMove ==
    /\ page.selectedScenario
    /\ vr.isRecording
    /\ \E x \in MoveCoords, y \in MoveCoords :
        /\ vr' = handlePointerMove(vr, x, y)
        /\ vhist' = [vhist EXCEPT !.lastMove =
                        [handled |-> TRUE, diffX |-> vr.startX - x, diffY |-> vr.startY - y]]
    /\ UNCHANGED <<recorders, page, sent>>
    /\ UNCHANGED outsideRecorder

\* does a call of stop() reach the current MediaRecorder
Stoppable == vr.mediaRecorder # 0 /\ recorders[vr.mediaRecorder].state # "inactive"

cancelRecording_StaleStop(how) ==
    /\ vr' = [vr EXCEPT !.isCancelled = TRUE]
    /\ IF Stoppable
       THEN /\ recorders' = [recorders EXCEPT ![vr.mediaRecorder] =
                                [Stop(@) EXCEPT !.onstop =
                                    [Handler(FALSE) EXCEPT !.isCancelled = FALSE]]]
            /\ vhist' = [vhist EXCEPT !.recordings[vr.mediaRecorder].released = how]
       ELSE UNCHANGED <<recorders, vhist>>

cancelRecording(how) ==
    /\ vr' = [vr EXCEPT !.isCancelled = TRUE,
                        !.isRecording = FALSE,
                        !.slideOffsetX = 0,
                        !.slideOffsetY = 0]
    /\ IF Stoppable
       THEN /\ recorders' = [recorders EXCEPT ![vr.mediaRecorder] =
                                [Stop(@) EXCEPT !.tracksStopped = TRUE]]
            /\ vhist' = [vhist EXCEPT !.recordings[vr.mediaRecorder].released = how,
                                      !.recordings[vr.mediaRecorder].language = page.language,
                                      !.lastMove = NoMove]
       ELSE /\ vhist' = [vhist EXCEPT !.lastMove = NoMove]
            /\ UNCHANGED recorders

stopRecording(checkMode) ==
    IF ~Stoppable
    THEN UNCHANGED <<vr, recorders, vhist>>
    ELSE /\ recorders' = [recorders EXCEPT ![vr.mediaRecorder] =
                             [Stop(@) EXCEPT !.onstop = Handler(checkMode)]]
         /\ vhist' = [vhist EXCEPT !.recordings[vr.mediaRecorder].released =
                                       IF checkMode THEN "check" ELSE "send",
                                   !.recordings[vr.mediaRecorder].language = page.language]
         /\ UNCHANGED vr

\* handlePointerUp
PointerUp ==
    /\ page.selectedScenario
    /\ vr.isRecording
    /\ IF vr.isCancelled THEN cancelRecording("cancel")
       ELSE IF vr.isCheckMode THEN stopRecording(TRUE)
       ELSE stopRecording(FALSE)
    /\ UNCHANGED <<page, sent>>
    /\ UNCHANGED outsideRecorder

\* onPointerCancel={cancelRecording}
PointerCancel ==
    /\ page.selectedScenario
    /\ cancelRecording("pointercancel")
    /\ UNCHANGED <<page, sent>>
    /\ UNCHANGED outsideRecorder

\* ConversationPage.handleVoiceMessage and handleCheckSentence, as the closure
\* that was handed to the recorder runs them: the requests they send
handleVoiceMessage(h, r, recognized) ==
    IF ~h.conversationId \/ ~recognized THEN <<>>
    ELSE <<[recording |-> r, language |-> h.language, check_sentence |-> FALSE]>>

handleCheckSentence(h, r, recognized) ==
    IF ~h.conversationId \/ ~recognized THEN <<>>
    ELSE <<[recording |-> r, language |-> h.language, check_sentence |-> TRUE]>>

\* which callback the onstop closure invokes
Callback(h) ==
    IF h.isCancelled THEN "none"
    ELSE IF h.checkMode /\ h.onCheckSentence THEN "onCheckSentence"
    ELSE "onSend"

\* the stop event of MediaRecorder r is dispatched
StopEvent ==
    /\ \E r \in 1..Len(recorders) :
        /\ recorders[r].stopQueued
        /\ LET h == recorders[r].onstop
           IN  IF ~h.set
               THEN /\ recorders' = [recorders EXCEPT ![r].stopQueued = FALSE]
                    /\ UNCHANGED <<vr, sent, vhist>>
               ELSE \E recognized \in BOOLEAN :
                    /\ recorders' = [recorders EXCEPT ![r].stopQueued = FALSE,
                                                      ![r].tracksStopped = TRUE]
                    /\ sent' = sent \o
                         (CASE Callback(h) = "onCheckSentence" -> handleCheckSentence(h, r, recognized)
                            [] Callback(h) = "onSend" -> handleVoiceMessage(h, r, recognized)
                            [] OTHER -> <<>>)
                    /\ vr' = [vr EXCEPT !.isRecording = FALSE,
                                        !.slideOffsetX = 0,
                                        !.slideOffsetY = 0]
                    /\ vhist' = [vhist EXCEPT !.recordings[r].delivered = Callback(h),
                                              !.lastMove = NoMove]
    /\ UNCHANGED page
    /\ UNCHANGED outsideRecorder

NextRecorder ==
    \/ HandleScenarioSelect
    \/ StartConversationSuccess
    \/ SetLanguage
    \/ PointerDown
    \/ StartRecordingResolved
    \/ StartRecordingFailed
    \/ PointerMove
    \/ PointerUp
    \/ PointerCancel
    \/ StopEvent

SpecRecorder == InitRecorder /\ [][NextRecorder]_vars

-----------------------------------------------------------------------------
(* VoiceRecorder with the pointer followed: ptr tells whether the pointer   *)
(* that was put down on the voice button is still down.  The steps that     *)
(* need no pointer are the ones of SpecRecorder.                            *)

outsidePress ==
    <<genVars, conv, engineVars, longPressVars, shadowVars, inflight, cm, tp, rt, cs, api, tts>>

InitPress ==
    /\ BackEndIdle
    /\ FrontEndIdle

\* the pointer goes down on the button: handlePointerDown
PressDown ==
    /\ page.selectedScenario
    /\ ~ptr.down
    /\ ptr.presses < MaxRecordings
    /\ \E x \in DownCoords, y \in DownCoords : vr' = handlePointerDown(vr, x, y)
    /\ ptr' = [down |-> TRUE, presses |-> ptr.presses + 1]
    /\ UNCHANGED <<recorders, page, sent, vhist>>
    /\ UNCHANGED outsidePress

\* the pointer is lifted: handlePointerUp, which returns at once when the
\* component is not recording
PressUp ==
    /\ page.selectedScenario
    /\ ptr.down
    /\ IF ~vr.isRecording THEN UNCHANGED <<vr, recorders, vhist>>
       ELSE IF vr.isCancelled THEN cancelRecording("cancel")
       ELSE IF vr.isCheckMode THEN stopRecording(TRUE)
       ELSE stopRecording(FALSE)
    /\ ptr' = [ptr EXCEPT !.down = FALSE]
    /\ UNCHANGED <<page, sent>>
    /\ UNCHANGED outsidePress

\* the pointer is cancelled: onPointerCancel={cancelRecording}
PressCancel ==
    /\ page.selectedScenario
    /\ ptr.down
    /\ cancelRecording("pointercancel")
    /\ ptr' = [ptr EXCEPT !.down = FALSE]
    /\ UNCHANGED <<page, sent>>
    /\ UNCHANGED outsidePress

NextPress ==
    \/ HandleScenarioSelect
    \/ StartConversationSuccess
    \/ PressDown
    \/ StartRecordingResolved
    \/ StartRecordingFailed
    \/ PointerMove
    \/ PressUp
    \/ PressCancel
    \/ StopEvent

SpecPress == InitPress /\ [][NextPress]_vars

\* getUserMedia settles and a queued stop event is dispatched; no pointer
\* event is ever required
SpecPressLive ==
    /\ SpecPress
    /\ WF_vars(StartRecordingResolved \/ StartRecordingFailed)
    /\ WF_vars(StopEvent)

-----------------------------------------------------------------------------
(* useLongPress (hooks/useVoiceInput.ts)                                    *)

longPressThreshold == 500   \* milliseconds, the default of the threshold option
MaxPresses == 2             \* calls of start in one behaviour
MaxAdvances == 4            \* advances of the clock in one behaviour

\* by how much the clock advances in one step
AdvanceSteps == {1, longPressThreshold - 1}

\* is the optional onClick given
OnClickOptions == BOOLEAN

\* everything useLongPress leaves alone
outsideLongPress == <<genVars, conv, engineVars, recorderVars, panelVars>>

InitLongPress ==
    /\ BackEndIdle
    /\ RecorderIdle
    /\ PanelsIdle
    /\ \E c \in OnClickOptions : lp = [onClick |-> c] @@ LongPressInitial
    /\ timers = <<>>
    /\ lpnow = 0
    /\ lphist = NoPresses

\* setTimeout(callback, threshold)
SetTimeout(ts, ms) == Append(ts, [due |-> lpnow + ms, state |-> "armed"])

\* clearTimeout(id): nothing for an id that is not pending
ClearTimeout(ts, id) ==
    IF id # 0 /\ ts[id].state = "armed" THEN [ts EXCEPT ![id].state = "cleared"] ELSE ts

\* start: onMouseDown, onTouchStart
start ==
    /\ lp.mounted
    /\ Len(timers) < MaxPresses
    /\ timers' = SetTimeout(timers, longPressThreshold)
    /\ lp' = [lp EXCEPT !.isLongPress = FALSE, !.timeout = Len(timers) + 1]
    /\ lphist' = [lphist EXCEPT !.released = Append(@, FALSE)]
    /\ lpnow' = lpnow
    /\ UNCHANGED outsideLongPress

\* clear: onMouseUp and onTouchEnd (shouldTriggerClick), onMouseLeave (not)
clear(shouldTriggerClick) ==
    /\ lp.mounted
    /\ timers' = ClearTimeout(timers, lp.timeout)
    /\ lp' = [lp EXCEPT !.isLongPress = FALSE]
    /\ lphist' = [lphist EXCEPT
                    !.released = [i \in 1..Len(timers) |-> TRUE],
                    !.clicked = shouldTriggerClick /\ ~lp.isLongPress /\ lp.onClick]
    /\ lpnow' = lpnow
    /\ UNCHANGED outsideLongPress

Release == clear(TRUE)

MouseLeave == clear(FALSE)

\* the callback of timer i runs, at its due time or later
TimerFires ==
    /\ \E i \in 1..Len(timers) :
        /\ timers[i].state = "armed"
        /\ lpnow >= timers[i].due
        /\ timers' = [timers EXCEPT ![i].state = "fired"]
        /\ lp' = [lp EXCEPT !.isLongPress = TRUE]
        /\ lphist' = [lphist EXCEPT !.calls = Append(@,
                          [timer |-> i,
                           held |-> lpnow - (timers[i].due - longPressThreshold),
                           released |-> lphist.released[i]])]
    /\ lpnow' = lpnow
    /\ UNCHANGED outsideLongPress

\* the cleanup of the effect, on unmount
Unmount ==
    /\ lp.mounted
    /\ timers' = ClearTimeout(timers, lp.timeout)
    /\ lp' = [lp EXCEPT !.mounted = FALSE]
    /\ UNCHANGED <<lpnow, lphist>>
    /\ UNCHANGED outsideLongPress

\* time passes
Advance ==
    /\ lphist.advances < MaxAdvances
    /\ \E d \in AdvanceSteps : lpnow' = lpnow + d
    /\ lphist' = [lphist EXCEPT !.advances = @ + 1]
    /\ UNCHANGED <<lp, timers>>
    /\ UNCHANGED outsideLongPress

NextLongPress ==
    \/ start
    \/ Release
    \/ MouseLeave
    \/ TimerFires
    \/ Unmount
    \/ Advance

SpecLongPress == InitLongPress /\ [][NextLongPress]_vars

-----------------------------------------------------------------------------
(* ConversationPage: the message list, the requests in flight, the          *)
(* auto-play setting                                                        *)

MaxVoiceMessages == 2   \* voice messages sent in one behaviour

\* everything the message list leaves alone
outsideConversation ==
    <<genVars, conv, engineVars, longPressVars, vr, recorders, vhist, shadowVars, cm, tp, rt,
      clientVars>>

InitConversation ==
    /\ BackEndIdle
    /\ FrontEndIdle

\* the Auto-play button, rendered in Japanese mode only
ToggleAutoPlay ==
    /\ page.selectedScenario
    /\ page.language = "ja"
    /\ page' = [page EXCEPT !.autoPlayTTS = ~@]
    /\ UNCHANGED <<sent, inflight>>
    /\ UNCHANGED outsideConversation

handleBackToScenarios ==
    /\ page.selectedScenario
    /\ page' = [page EXCEPT !.selectedScenario = FALSE,
                            !.conversationId = FALSE,
                            !.messages = <<>>]
    /\ UNCHANGED <<sent, inflight>>
    /\ UNCHANGED outsideConversation

\* handleVoiceMessage and handleCheckSentence after recognizeSpeech has
\* resolved: the user message is added and the request is made
VoiceMessage ==
    /\ page.selectedScenario
    /\ page.conversationId
    /\ Len(sent) < MaxVoiceMessages
    /\ \E check \in BOOLEAN :
        /\ check => onCheckSentence(page)
        /\ sent' = Append(sent, [recording |-> Len(sent) + 1,
                                 language |-> page.language,
                                 check_sentence |-> check])
    /\ page' = [page EXCEPT !.messages =
                    Append(@, [role |-> "user", send |-> Len(sent) + 1, audioUrl |-> 0])]
    /\ inflight' = inflight \cup {Len(sent) + 1}
    /\ UNCHANGED outsideConversation

\* findLastIndex((m) => m.role === 'user'), 0 for -1
RECURSIVE LastUserIndex(_)
LastUserIndex(msgs) ==
    IF msgs = <<>> THEN 0
    ELSE IF msgs[Len(msgs)].role = "user" THEN Len(msgs)
    ELSE LastUserIndex(SubSeq(msgs, 1, Len(msgs) - 1))

\* the list sendMessageMutation.onSuccess leaves, for the response to
\* request n, with or without user_audio_url
onSuccess(msgs, n, withUrl) ==
    LET lastUserIndex == LastUserIndex(msgs)
        updated == IF withUrl /\ lastUserIndex # 0
                   THEN [msgs EXCEPT ![lastUserIndex].audioUrl = n]
                   ELSE msgs
    IN  Append(updated, [role |-> "assistant", send |-> n, audioUrl |-> 0])

\* the response to a request arrives
SendSuccess ==
    /\ \E n \in inflight, withUrl \in BOOLEAN :
        /\ page' = [page EXCEPT !.messages = onSuccess(@, n, withUrl)]
        /\ inflight' = inflight \ {n}
    /\ UNCHANGED sent
    /\ UNCHANGED outsideConversation

\* a request fails
SendFailure ==
    /\ \E n \in inflight : inflight' = inflight \ {n}
    /\ UNCHANGED <<page, sent>>
    /\ UNCHANGED outsideConversation

NextConversation ==
    \/ HandleScenarioSelect
    \/ StartConversationSuccess
    \/ SetLanguage
    \/ ToggleAutoPlay
    \/ handleBackToScenarios
    \/ VoiceMessage
    \/ SendSuccess
    \/ SendFailure

SpecConversation == InitConversation /\ [][NextConversation]_vars

-----------------------------------------------------------------------------
(* ShadowPractice (components/ShadowPractice.tsx)                           *)

MaxShadowStarts == 2    \* calls of startRecording in one behaviour

\* everything ShadowPractice leaves alone
outsideShadow ==
    <<genVars, conv, engineVars, recorderVars, longPressVars, inflight, cm, tp, rt,
      clientVars>>

InitShadow ==
    /\ BackEndIdle
    /\ FrontEndIdle

\* the state the component would render now
ShadowState(s) ==
    [isRecording |-> s.isRecording, isProcessing |-> s.isProcessing, result |-> s.result]

\* the Hold to Practice button is in the document
PracticeButtonShown ==
    /\ sp.shown.result = "none"
    /\ ~sp.shown.isRecording
    /\ ~sp.shown.isProcessing

\* the Try Again button is in the document
RetryButtonShown ==
    /\ sp.shown.result # "none"
    /\ ~sp.shown.isRecording
    /\ ~sp.shown.isProcessing

\* the MediaRecorder startRecording creates and starts, for attempt a
NewShadowRecorder(a) ==
    [state |-> "recording", stopQueued |-> FALSE, stage |-> "none", attempt |-> a]

NewAttempt(by) == [by |-> by, released |-> by = "retry", outcome |-> "none"]

\* React commits the state updates queued by the continuations
ShadowRender ==
    /\ sp.shown # ShadowState(sp)
    /\ sp' = [sp EXCEPT !.shown = ShadowState(sp)]
    /\ UNCHANGED <<sprecs, sphist>>
    /\ UNCHANGED outsideShadow

\* onPointerDown={startRecording}, up to the await
ShadowPointerDown ==
    /\ PracticeButtonShown
    /\ sphist.pointer = "up"
    /\ Len(sphist.attempts) < MaxShadowStarts
    /\ sp' = [sp EXCEPT !.pending = Append(@, Len(sphist.attempts) + 1)]
    /\ sphist' = [pointer |-> "down", attempts |-> Append(sphist.attempts, NewAttempt("press"))]
    /\ UNCHANGED sprecs
    /\ UNCHANGED outsideShadow

\* handleRetry, up to the await in startRecording
handleRetry ==
    /\ RetryButtonShown
    /\ sphist.pointer = "up"
    /\ Len(sphist.attempts) < MaxShadowStarts
    /\ sp' = [sp EXCEPT !.result = "none",
                        !.pending = Append(@, Len(sphist.attempts) + 1)]
    /\ sphist' = [sphist EXCEPT !.attempts = Append(@, NewAttempt("retry"))]
    /\ UNCHANGED sprecs
    /\ UNCHANGED outsideShadow

\* startRecording after getUserMedia has resolved
ShadowStartResolved ==
    /\ sp.pending # <<>>
    /\ sprecs' = Append(sprecs, NewShadowRecorder(Head(sp.pending)))
    /\ sp' = [sp EXCEPT !.pending = Tail(@),
                        !.mediaRecorder = Len(sprecs) + 1,
                        !.isRecording = TRUE,
                        !.result = "none"]
    /\ UNCHANGED sphist
    /\ UNCHANGED outsideShadow

\* startRecording after getUserMedia has rejected: the catch and its alert
ShadowStartRejected ==
    /\ sp.pending # <<>>
    /\ sp' = [sp EXCEPT !.pending = Tail(@)]
    /\ sphist' = [sphist EXCEPT !.attempts[Head(sp.pending)].outcome = "startAlert"]
    /\ UNCHANGED sprecs
    /\ UNCHANGED outsideShadow

ShadowStoppable == sp.mediaRecorder # 0 /\ sprecs[sp.mediaRecorder].state # "inactive"

\* stopRecording
shadowStopRecording ==
    IF ShadowStoppable
    THEN /\ sprecs' = [sprecs EXCEPT ![sp.mediaRecorder].state = "inactive",
                                     ![sp.mediaRecorder].stopQueued = TRUE]
         /\ sp' = [sp EXCEPT !.isRecording = FALSE]
    ELSE UNCHANGED <<sp, sprecs>>

\* the user lifts the pointer (or the pointer is cancelled): the press of
\* every attempt is over; onPointerUp and onPointerCancel run stopRecording
\* if the button is still in the document, and nothing runs if it is not
ShadowPointerUp ==
    /\ sphist.pointer = "down"
    /\ sphist' = [pointer |-> "up",
                  attempts |-> [a \in 1..Len(sphist.attempts) |->
                                  [sphist.attempts[a] EXCEPT !.released = TRUE]]]
    /\ IF PracticeButtonShown THEN shadowStopRecording ELSE UNCHANGED <<sp, sprecs>>
    /\ UNCHANGED outsideShadow

\* the stop event of MediaRecorder r: onstop, up to the first await of
\* processRecording
ShadowStopEvent ==
    /\ \E r \in 1..Len(sprecs) :
        /\ sprecs[r].stopQueued
        /\ sprecs' = [sprecs EXCEPT ![r].stopQueued = FALSE, ![r].stage = "recognizing"]
    /\ sp' = [sp EXCEPT !.isProcessing = TRUE]
    /\ UNCHANGED sphist
    /\ UNCHANGED outsideShadow

\* processRecording after recognizeSpeech has settled
ShadowRecognized ==
    /\ \E r \in 1..Len(sprecs), ok \in BOOLEAN :
        /\ sprecs[r].stage = "recognizing"
        /\ IF ok
           THEN /\ sprecs' = [sprecs EXCEPT ![r].stage = "checking"]
                /\ UNCHANGED <<sp, sphist>>
           ELSE /\ sprecs' = [sprecs EXCEPT ![r].stage = "done"]
                /\ sp' = [sp EXCEPT !.isProcessing = FALSE]
                /\ sphist' = [sphist EXCEPT !.attempts[sprecs[r].attempt].outcome = "checkAlert"]
    /\ UNCHANGED outsideShadow

\* processRecording after shadowCheck has settled
ShadowChecked ==
    /\ \E r \in 1..Len(sprecs), res \in {"perfect", "imperfect", "failed"} :
        /\ sprecs[r].stage = "checking"
        /\ sprecs' = [sprecs EXCEPT ![r].stage = "done"]
        /\ sp' = [sp EXCEPT !.isProcessing = FALSE,
                            !.result = IF res = "failed" THEN @ ELSE res]
        /\ sphist' = [sphist EXCEPT !.attempts[sprecs[r].attempt].outcome =
                                        IF res = "failed" THEN "checkAlert" ELSE "result"]
    /\ UNCHANGED outsideShadow

NextShadow ==
    \/ ShadowRender
    \/ ShadowPointerDown
    \/ handleRetry
    \/ ShadowStartResolved
    \/ ShadowStartRejected
    \/ ShadowPointerUp
    \/ ShadowStopEvent
    \/ ShadowRecognized
    \/ ShadowChecked

SpecShadow == InitShadow /\ [][NextShadow]_vars

\* what the program does by itself happens, and a held pointer is lifted;
\* no press or click is ever required
SpecShadowLive ==
    /\ SpecShadow
    /\ WF_vars(ShadowRender)
    /\ WF_vars(ShadowStartResolved \/ ShadowStartRejected)
    /\ WF_vars(ShadowPointerUp)
    /\ WF_vars(ShadowStopEvent)
    /\ WF_vars(ShadowRecognized)
    /\ WF_vars(ShadowChecked)

-----------------------------------------------------------------------------
(* ChatMessage (components/ChatMessage.tsx): the modals of one message of   *)
(* the conversation.  cm holds one record per mounted ChatMessage:          *)
(*   role, isJapanese (words && words.length > 0), selectedWord,            *)
(*   showExplanation, showShadowPractice, and last, the last thing the user *)
(*   did to the message                                                     *)

MaxChatMessages == 2

outsideChat ==
    <<genVars, conv, engineVars, recorderVars, longPressVars, shadowVars, inflight, tp, rt,
      clientVars>>

InitChat ==
    /\ BackEndIdle
    /\ FrontEndIdle

\* the useState initial values, for a message with the given props
ChatMessageInitial(role, isJapanese) ==
    [role |-> role, isJapanese |-> isJapanese, selectedWord |-> FALSE,
     showExplanation |-> FALSE, showShadowPractice |-> FALSE, last |-> "none"]

\* ConversationPage renders a ChatMessage for a new message of the list
MountChatMessage ==
    /\ Len(cm) < MaxChatMessages
    /\ \E role \in {"user", "assistant"}, isJapanese \in BOOLEAN :
           cm' = Append(cm, ChatMessageInitial(role, isJapanese))
    /\ UNCHANGED outsideChat

\* which modals of a message are on the screen
ExplanationModalShown(m) == m.showExplanation /\ m.isJapanese
ShadowPracticeShown(m) == m.showShadowPractice /\ m.isJapanese
WordModalShown(m) == m.selectedWord

\* the onLongPress callback ChatMessage hands to useLongPress
onLongPress(m) == [m EXCEPT !.showShadowPractice = TRUE]

\* the long-press timer of message i fires: the handlers are on the element
\* that is rendered for a Japanese message only
LongPressMessage(i) ==
    /\ cm[i].isJapanese
    /\ cm' = [cm EXCEPT ![i] = [onLongPress(@) EXCEPT !.last = "longPress"]]
    /\ UNCHANGED outsideChat

\* a click on a word of message i
WordClick(i) ==
    /\ cm[i].isJapanese
    /\ cm' = [cm EXCEPT ![i] = [@ EXCEPT !.selectedWord = TRUE, !.last = "wordClick"]]
    /\ UNCHANGED outsideChat

\* onClose of the WordModal
CloseWordModal(i) ==
    /\ WordModalShown(cm[i])
    /\ cm' = [cm EXCEPT ![i] = [@ EXCEPT !.selectedWord = FALSE, !.last = "close"]]
    /\ UNCHANGED outsideChat

\* onClose of the ShadowPractice panel
CloseShadowPractice(i) ==
    /\ ShadowPracticeShown(cm[i])
    /\ cm' = [cm EXCEPT ![i] = [@ EXCEPT !.showShadowPractice = FALSE, !.last = "close"]]
    /\ UNCHANGED outsideChat

\* setShowExplanation is called in onClose of the ExplanationModal only,
\* which exists while the modal is rendered
CloseExplanation(i) ==
    /\ ExplanationModalShown(cm[i])
    /\ cm' = [cm EXCEPT ![i] = [@ EXCEPT !.showExplanation = FALSE, !.last = "close"]]
    /\ UNCHANGED outsideChat

NextChat ==
    \/ MountChatMessage
    \/ \E i \in 1..Len(cm) :
           \/ LongPressMessage(i)
           \/ WordClick(i)
           \/ CloseWordModal(i)
           \/ CloseShadowPractice(i)

SpecChat == InitChat /\ [][NextChat]_vars

-----------------------------------------------------------------------------
(* TranslationPanel (components/TranslationPanel.tsx) with its useVoiceInput *)
(* hook (hooks/useVoiceInput.ts).  tp holds                                 *)
(*   inputText      the text of the input box: 0 is the empty text,         *)
(*                  TypedText a text the user typed, n > 0 the              *)
(*                  transcription of recording n                            *)
(*   isRecording, isProcessing, error   the state of useVoiceInput          *)
(*   mediaRecorder  mediaRecorderRef.current: 0 or an index of recorders    *)
(*   starting       the getUserMedia calls that have not settled            *)
(*   recorders      the MediaRecorders created: state, whether a stop event *)
(*                  is queued, whether onstop is set                        *)
(*   recognizing    the recordings recognizeSpeech is working on            *)
(*   requests       the texts translateMutation.mutate was called with      *)
(*   answered       how many of them have been answered                     *)
(*   result         the text whose translation is shown, 0 for none         *)
(*   transcribed    the transcriptions stopRecording has resolved with      *)
(*   rejections     how often stopRecording rejected with 'No active        *)
(*                  recording'                                              *)
(* A recorder also records whether the tracks of its stream were stopped.   *)

MaxPanelRecordings == 2
MaxTranslations == 2
MaxRejections == 1

outsidePanel ==
    <<genVars, conv, engineVars, recorderVars, longPressVars, shadowVars, inflight, cm, rt,
      clientVars>>

InitPanel ==
    /\ BackEndIdle
    /\ FrontEndIdle

\* onChange of the textarea
SetInputText ==
    /\ \E text \in {0, TypedText} :
           /\ text # tp.inputText
           /\ tp' = [tp EXCEPT !.inputText = text]
    /\ UNCHANGED outsidePanel

\* translateMutation.isPending
isPending == tp.answered < Len(tp.requests)

\* handleTranslate
handleTranslate(p) ==
    IF p.inputText = 0 THEN p
    ELSE [p EXCEPT !.requests = Append(@, p.inputText)]

\* the Translate button, which is disabled while a translation is pending or
\* the box is empty, or Ctrl+Enter in the box
Translate ==
    /\ Len(tp.requests) < MaxTranslations
    /\ \E byKey \in BOOLEAN : byKey \/ (~isPending /\ tp.inputText # 0)
    /\ tp' = handleTranslate(tp)
    /\ tp' # tp
    /\ UNCHANGED outsidePanel

\* translateMutation.onSuccess
TranslateSuccess ==
    /\ isPending
    /\ tp' = [tp EXCEPT !.answered = @ + 1, !.result = tp.requests[tp.answered + 1]]
    /\ UNCHANGED outsidePanel

\* useVoiceInput.startRecording up to its await
panelStartRecording(p) == [p EXCEPT !.error = FALSE, !.starting = @ + 1]

\* whether mediaRecorderRef holds a recorder that is not inactive
hasActiveRecording(p) ==
    p.mediaRecorder # 0 /\ p.recorders[p.mediaRecorder].state # "inactive"

\* mutant: the rejection is also reported through the error state
panelStopRecording_SetsError(p) ==
    IF ~hasActiveRecording(p) THEN [p EXCEPT !.rejections = @ + 1, !.error = TRUE]
    ELSE [p EXCEPT !.recorders[p.mediaRecorder].state = "inactive",
                   !.recorders[p.mediaRecorder].stopQueued = TRUE,
                   !.recorders[p.mediaRecorder].onstop = TRUE]

\* useVoiceInput.stopRecording: the promise is rejected when there is no
\* active recorder, and handleVoiceInput logs the rejection
panelStopRecording(p) ==
    IF ~hasActiveRecording(p) THEN [p EXCEPT !.rejections = @ + 1]
    ELSE [p EXCEPT !.recorders[p.mediaRecorder].state = "inactive",
                   !.recorders[p.mediaRecorder].stopQueued = TRUE,
                   !.recorders[p.mediaRecorder].onstop = TRUE]

\* handleVoiceInput: the microphone button, disabled while isProcessing
handleVoiceInput ==
    /\ ~tp.isProcessing
    /\ IF tp.isRecording
       THEN /\ hasActiveRecording(tp) \/ tp.rejections < MaxRejections
            /\ tp' = panelStopRecording(tp)
       ELSE /\ Len(tp.recorders) + tp.starting < MaxPanelRecordings
            /\ tp' = panelStartRecording(tp)
    /\ UNCHANGED outsidePanel

\* getUserMedia resolves: the rest of startRecording
PanelStartResolved ==
    /\ tp.starting > 0
    /\ tp' = [tp EXCEPT !.starting = @ - 1,
                        !.recorders = Append(@, [state |-> "recording", stopQueued |-> FALSE,
                                                 onstop |-> FALSE, tracksStopped |-> FALSE]),
                        !.mediaRecorder = Len(tp.recorders) + 1,
                        !.isRecording = TRUE]
    /\ UNCHANGED outsidePanel

\* getUserMedia rejects: the catch of startRecording
PanelStartRejected ==
    /\ tp.starting > 0
    /\ tp' = [tp EXCEPT !.starting = @ - 1, !.error = TRUE]
    /\ UNCHANGED outsidePanel

\* the stop event of recorder r: onstop up to its await
PanelStopEvent(r) ==
    /\ tp.recorders[r].stopQueued
    /\ tp' = [tp EXCEPT !.recorders[r].stopQueued = FALSE,
                        !.isRecording = IF tp.recorders[r].onstop THEN FALSE ELSE @,
                        !.isProcessing = IF tp.recorders[r].onstop THEN TRUE ELSE @,
                        !.recognizing = IF tp.recorders[r].onstop THEN @ \cup {r} ELSE @]
    /\ UNCHANGED outsidePanel

\* what handleVoiceInput does with the transcription stopRecording resolved
\* with
onTranscription(p, transcription) == [p EXCEPT !.inputText = transcription]

\* recognizeSpeech resolves for recording r: the rest of onstop, then the
\* rest of handleVoiceInput
PanelRecognized(r) ==
    /\ r \in tp.recognizing
    /\ tp' = onTranscription([tp EXCEPT !.recognizing = @ \ {r},
                                        !.isProcessing = FALSE,
                                        !.recorders[r].tracksStopped = TRUE,
                                        !.transcribed = Append(@, r)], r)
    /\ UNCHANGED outsidePanel

\* recognizeSpeech rejects for recording r: the catch of onstop, then the
\* catch of handleVoiceInput
PanelRecognizeFailed(r) ==
    /\ r \in tp.recognizing
    /\ tp' = [tp EXCEPT !.recognizing = @ \ {r}, !.isProcessing = FALSE, !.error = TRUE,
                        !.recorders[r].tracksStopped = TRUE]
    /\ UNCHANGED outsidePanel

NextPanel ==
    \/ SetInputText
    \/ Translate
    \/ TranslateSuccess
    \/ handleVoiceInput
    \/ PanelStartResolved
    \/ PanelStartRejected
    \/ \E r \in 1..Len(tp.recorders) :
           \/ PanelStopEvent(r)
           \/ PanelRecognized(r)
           \/ PanelRecognizeFailed(r)

SpecPanel == InitPanel /\ [][NextPanel]_vars

-----------------------------------------------------------------------------
(* The recording timer of the VoiceRecorder (part_001 l.20, 32-50).  rt     *)
(* holds the state the timer effect depends on, the gesture state that      *)
(* decides it, and                                                          *)
(*   recordingTime  the seconds shown                                       *)
(*   timer          whether the one-second interval is set                  *)
(*   elapsed        the seconds since the recording in progress started     *)
(*   recordings     the recordings started so far                           *)

MaxTimedRecordings == 2
MaxSeconds == 3

outsideTimer ==
    <<genVars, conv, engineVars, recorderVars, longPressVars, shadowVars, inflight, cm, tp,
      clientVars>>

InitTimer ==
    /\ BackEndIdle
    /\ FrontEndIdle

\* the effect, run after a render in which one of isRecording, isCancelled,
\* isCheckMode has changed
TimerEffect(old, new) ==
    IF <<new.isRecording, new.isCancelled, new.isCheckMode>>
           = <<old.isRecording, old.isCancelled, old.isCheckMode>>
    THEN new
    ELSE IF new.isRecording /\ ~new.isCancelled /\ ~new.isCheckMode
    THEN [new EXCEPT !.timer = TRUE]
    ELSE [new EXCEPT !.timer = FALSE, !.recordingTime = 0]

\* the button is pressed and startRecording gets its stream
TimerStartRecording ==
    /\ ~rt.isRecording
    /\ rt.recordings < MaxTimedRecordings
    /\ \E x \in DownCoords, y \in DownCoords :
           rt' = TimerEffect(rt, [rt EXCEPT !.startX = x, !.startY = y,
                                            !.isRecording = TRUE,
                                            !.isCancelled = FALSE,
                                            !.isCheckMode = FALSE,
                                            !.slideOffsetX = 0,
                                            !.slideOffsetY = 0,
                                            !.elapsed = 0,
                                            !.recordings = @ + 1])
    /\ UNCHANGED outsideTimer

\* the pointer moves during the recording
TimerPointerMove ==
    /\ rt.isRecording
    /\ \E x \in MoveCoords, y \in MoveCoords :
           rt' = TimerEffect(rt, handlePointerMove(rt, x, y))
    /\ UNCHANGED outsideTimer

\* the recording ends: by the stop event after a release, or by
\* cancelRecording
TimerEndRecording ==
    /\ rt.isRecording
    /\ \E cancelled \in BOOLEAN :
           rt' = TimerEffect(rt, [rt EXCEPT !.isRecording = FALSE,
                                            !.isCancelled = IF cancelled THEN TRUE ELSE @,
                                            !.slideOffsetX = 0,
                                            !.slideOffsetY = 0])
    /\ UNCHANGED outsideTimer

\* a second of the recording passes: the interval, if set, fires
TimerSecond ==
    /\ rt.isRecording
    /\ rt.elapsed < MaxSeconds
    /\ rt' = [rt EXCEPT !.elapsed = @ + 1,
                        !.recordingTime = IF rt.timer THEN @ + 1 ELSE @]
    /\ UNCHANGED outsideTimer

NextTimer ==
    \/ TimerStartRecording
    \/ TimerPointerMove
    \/ TimerEndRecording
    \/ TimerSecond

SpecTimer == InitTimer /\ [][NextTimer]_vars

-----------------------------------------------------------------------------
(* ConversationPage (pages/ConversationPage.tsx): the conversations of one  *)
(* visit of the page and their requests in flight.  cs holds                *)
(*   selectedScenario  0 on the scenario list, k after the k-th selection   *)
(*   conversationId    0 for null, k for the id the k-th start-conversation *)
(*                     request returned                                     *)
(*   messages          the list; conv is the conversation a message came    *)
(*                     from, send the voice message it belongs to (0 for a  *)
(*                     starter), audioUrl as in the list of page            *)
(*   starting          the start-conversation requests with no response yet *)
(*   recognizing       the voice messages recognizeSpeech is working on,    *)
(*                     each with the conversationId its handler read        *)
(*   sending           the send-message requests with no response yet       *)
(*   selections, voices, ignored   counters: scenarios selected, voice      *)
(*                     messages handed over, voice messages ignored         *)

MaxSelections == 2
MaxSessionVoices == 2

outsideSession ==
    <<genVars, conv, engineVars, recorderVars, longPressVars, shadowVars, inflight, cm, tp, rt,
      api, tts, ptr>>

InitSession ==
    /\ BackEndIdle
    /\ FrontEndIdle

\* handleScenarioSelect
SessionSelect ==
    /\ cs.selectedScenario = 0
    /\ cs.selections < MaxSelections
    /\ cs' = [cs EXCEPT !.selections = @ + 1,
                        !.selectedScenario = cs.selections + 1,
                        !.starting = @ \cup {cs.selections + 1}]
    /\ UNCHANGED outsideSession

\* startConversationMutation.onSuccess for request k
startConversationSuccess(c, k) ==
    [c EXCEPT !.conversationId = k,
              !.messages = <<[role |-> "assistant", conv |-> k, send |-> 0, audioUrl |-> 0]>>]

SessionStartSuccess ==
    /\ \E k \in cs.starting :
           cs' = [startConversationSuccess(cs, k) EXCEPT !.starting = @ \ {k}]
    /\ UNCHANGED outsideSession

\* a start-conversation request fails
SessionStartFailure ==
    /\ \E k \in cs.starting : cs' = [cs EXCEPT !.starting = @ \ {k}]
    /\ UNCHANGED outsideSession

\* handleBackToScenarios
SessionBack ==
    /\ cs.selectedScenario # 0
    /\ cs' = [cs EXCEPT !.selectedScenario = 0, !.conversationId = 0, !.messages = <<>>]
    /\ UNCHANGED outsideSession

\* handleVoiceMessage and handleCheckSentence up to their await: the
\* VoiceRecorder of the conversation view hands over a recording
SessionVoice ==
    /\ cs.selectedScenario # 0
    /\ cs.voices < MaxSessionVoices
    /\ cs' = IF cs.conversationId = 0
             THEN [cs EXCEPT !.voices = @ + 1, !.ignored = @ + 1]
             ELSE [cs EXCEPT !.voices = @ + 1,
                             !.recognizing = @ \cup {[send |-> cs.voices + 1,
                                                      conv |-> cs.conversationId]}]
    /\ UNCHANGED outsideSession

\* recognizeSpeech resolves: the user message is added, then the request
\* is handed to sendMessageMutation
SessionRecognized ==
    /\ \E r \in cs.recognizing :
           cs' = [cs EXCEPT !.recognizing = @ \ {r},
                            !.messages = Append(@, [role |-> "user", conv |-> r.conv,
                                                    send |-> r.send, audioUrl |-> 0]),
                            !.sending = @ \cup {r}]
    /\ UNCHANGED outsideSession

\* recognizeSpeech rejects: the catch of the handler
SessionRecognizeFailed ==
    /\ \E r \in cs.recognizing : cs' = [cs EXCEPT !.recognizing = @ \ {r}]
    /\ UNCHANGED outsideSession

\* mutant: the reply replaces the list
sendMessageSuccess_Replaces(msgs, r, withUrl) ==
    <<[role |-> "assistant", conv |-> r.conv, send |-> r.send, audioUrl |-> 0]>>

\* sendMessageMutation.onSuccess for the response to request r
sendMessageSuccess(msgs, r, withUrl) ==
    LET lastUserIndex == LastUserIndex(msgs)
        updated == IF withUrl /\ lastUserIndex # 0
                   THEN [msgs EXCEPT ![lastUserIndex].audioUrl = r.send]
                   ELSE msgs
    IN  Append(updated, [role |-> "assistant", conv |-> r.conv, send |-> r.send,
                         audioUrl |-> 0])

SessionSendSuccess ==
    /\ \E r \in cs.sending, withUrl \in BOOLEAN :
           cs' = [cs EXCEPT !.sending = @ \ {r},
                            !.messages = sendMessageSuccess(@, r, withUrl)]
    /\ UNCHANGED outsideSession

\* a send-message request fails
SessionSendFailure ==
    /\ \E r \in cs.sending : cs' = [cs EXCEPT !.sending = @ \ {r}]
    /\ UNCHANGED outsideSession

NextSession ==
    \/ SessionSelect
    \/ SessionStartSuccess
    \/ SessionStartFailure
    \/ SessionBack
    \/ SessionVoice
    \/ SessionRecognized
    \/ SessionRecognizeFailed
    \/ SessionSendSuccess
    \/ SessionSendFailure

SpecSession == InitSession /\ [][NextSession]_vars

-----------------------------------------------------------------------------
(* The API client (api/client.ts): the axios instance with its two          *)
(* interceptors.  api holds                                                 *)
(*   token     localStorage 'token': 0 for none, t for the t-th token       *)
(*             stored                                                       *)
(*   stores    how many tokens have been stored                             *)
(*   requests  the requests made: the Authorization header sent (0 for      *)
(*             none, t for Bearer t), the token stored when it was sent,    *)
(*             and how it ended: status 0 while in flight, and whether the  *)
(*             caller's promise was rejected                                *)

MaxTokens == 2
MaxRequests == 3

\* the status of a response; NoResponse is an error without a response
NoResponse == 1
Statuses == {200, 401, 500, NoResponse}

outsideClient ==
    <<genVars, conv, engineVars, recorderVars, longPressVars, shadowVars, inflight, cm, tp, rt,
      cs, tts, ptr>>

InitClient ==
    /\ BackEndIdle
    /\ FrontEndIdle

\* something outside the client stores a token
ClientStoreToken ==
    /\ api.stores < MaxTokens
    /\ api' = [api EXCEPT !.stores = @ + 1, !.token = api.stores + 1]
    /\ UNCHANGED outsideClient

\* the request interceptor: the Authorization header of the request
requestInterceptor(token) == IF token # 0 THEN token ELSE 0

\* a request is made through the client
ClientRequest ==
    /\ Len(api.requests) < MaxRequests
    /\ api' = [api EXCEPT !.requests =
                   Append(@, [authorization |-> requestInterceptor(api.token),
                              tokenThen |-> api.token,
                              status |-> 0, rejected |-> FALSE])]
    /\ UNCHANGED outsideClient

\* mutant: the error handler ends without rejecting
responseInterceptor_Swallows(a, i, status) ==
    IF status = 200
    THEN [a EXCEPT !.requests[i].status = status]
    ELSE [a EXCEPT !.requests[i].status = status,
                   !.token = IF status = 401 THEN 0 ELSE @]

\* the response interceptor, for the response or error of request i
responseInterceptor(a, i, status) ==
    IF status = 200
    THEN [a EXCEPT !.requests[i].status = status]
    ELSE [a EXCEPT !.requests[i].status = status,
                   !.requests[i].rejected = TRUE,
                   !.token = IF status = 401 THEN 0 ELSE @]

\* request i ends
ClientResponse ==
    /\ \E i \in 1..Len(api.requests), status \in Statuses :
           /\ api.requests[i].status = 0
           /\ api' = responseInterceptor(api, i, status)
    /\ UNCHANGED outsideClient

NextClient ==
    \/ ClientStoreToken
    \/ ClientRequest
    \/ ClientResponse

SpecClient == InitClient /\ [][NextClient]_vars

-----------------------------------------------------------------------------
(* useTTS (hooks/useTTS.ts, part_003) in the components that host it.  tts  *)
(* holds                                                                    *)
(*   host        the component that called useTTS: "panel" for the          *)
(*               TranslationPanel, "modal" for the ExplanationModal         *)
(*   isPlaying, isLoading, error   the state of the hook                    *)
(*   audioRef    audioRef.current: 0 or an index of audios                  *)
(*   generating  the generateTTS calls that have not settled                *)
(*   audios      the Audio elements created: state "playing" (not paused),  *)
(*               "paused", "ended" or "failed"; whether its play event is   *)
(*               queued; whether the promise of its play() is pending       *)
(*   plays, stops   how often play and stop were called                     *)

MaxPlays == 3
MaxStops == 2

Hosts == {"panel", "modal"}

outsideTts ==
    <<genVars, conv, engineVars, recorderVars, longPressVars, shadowVars, inflight, cm, tp, rt,
      cs, api, ptr>>

InitTts ==
    /\ BackEndIdle
    /\ FrontEndIdle

\* a component that uses the hook is rendered
TtsMount ==
    /\ tts.host = "none"
    /\ \E h \in Hosts : tts' = [tts EXCEPT !.host = h]
    /\ UNCHANGED outsideTts

\* play, up to its await of generateTTS
play(t) ==
    [t EXCEPT !.error = FALSE, !.isLoading = TRUE, !.generating = @ + 1, !.plays = @ + 1]

\* stop
stop(t) ==
    IF t.audioRef = 0 THEN [t EXCEPT !.stops = @ + 1]
    ELSE [t EXCEPT !.audios[t.audioRef].state =
                       IF @ = "playing" THEN "paused" ELSE @,
                   !.isPlaying = FALSE,
                   !.stops = @ + 1]

\* the speaker button of the TranslationPanel, disabled while isPlaying
TtsPanelClick ==
    /\ tts.host = "panel"
    /\ ~tts.isPlaying
    /\ tts.plays < MaxPlays
    /\ tts' = play(tts)
    /\ UNCHANGED outsideTts

\* handlePlayExplanation: the Listen/Stop button of the ExplanationModal,
\* disabled while isLoading
TtsModalClick ==
    /\ tts.host = "modal"
    /\ ~tts.isLoading
    /\ IF tts.isPlaying
       THEN tts.stops < MaxStops /\ tts' = stop(tts)
       ELSE tts.plays < MaxPlays /\ tts' = play(tts)
    /\ UNCHANGED outsideTts

\* generateTTS resolves: the Audio is created, stored in the ref and played
TtsGenerated ==
    /\ tts.generating > 0
    /\ tts' = [tts EXCEPT !.generating = @ - 1,
                          !.audios = Append(@, [state |-> "playing", playQueued |-> TRUE,
                                                pending |-> TRUE]),
                          !.audioRef = Len(tts.audios) + 1]
    /\ UNCHANGED outsideTts

\* generateTTS rejects: the catch of play
TtsGenerateFailed ==
    /\ tts.generating > 0
    /\ tts' = [tts EXCEPT !.generating = @ - 1, !.error = TRUE, !.isLoading = FALSE]
    /\ UNCHANGED outsideTts

\* the play event of audio i: audio.onplay
TtsOnPlay(i) ==
    /\ tts.audios[i].playQueued
    /\ tts' = [tts EXCEPT !.audios[i].playQueued = FALSE, !.isPlaying = TRUE]
    /\ UNCHANGED outsideTts

\* the promise of audio.play() resolves, after the play event that play()
\* queued: the rest of play
TtsPlayResolved(i) ==
    /\ tts.audios[i].pending
    /\ ~tts.audios[i].playQueued
    /\ tts.audios[i].state = "playing"
    /\ tts' = [tts EXCEPT !.audios[i].pending = FALSE, !.isLoading = FALSE]
    /\ UNCHANGED outsideTts

\* the promise of audio.play() rejects (the audio was paused before it
\* started, or it cannot be loaded): the catch of play, and audio.onerror
\* when the audio cannot be loaded
TtsPlayRejected(i) ==
    /\ tts.audios[i].pending
    /\ ~tts.audios[i].playQueued
    /\ tts' = [tts EXCEPT !.audios[i].pending = FALSE,
                          !.audios[i].state = IF @ = "playing" THEN "failed" ELSE @,
                          !.isPlaying = IF tts.audios[i].state = "playing" THEN FALSE ELSE @,
                          !.error = TRUE,
                          !.isLoading = FALSE]
    /\ UNCHANGED outsideTts

\* audio i plays to its end: audio.onended
TtsEnded(i) ==
    /\ tts.audios[i].state = "playing"
    /\ ~tts.audios[i].pending
    /\ ~tts.audios[i].playQueued
    /\ tts' = [tts EXCEPT !.audios[i].state = "ended",
                          !.isPlaying = FALSE,
                          !.isLoading = FALSE]
    /\ UNCHANGED outsideTts

NextTts ==
    \/ TtsMount
    \/ TtsPanelClick
    \/ TtsModalClick
    \/ TtsGenerated
    \/ TtsGenerateFailed
    \/ \E i \in 1..Len(tts.audios) :
           \/ TtsOnPlay(i)
           \/ TtsPlayResolved(i)
           \/ TtsPlayRejected(i)
           \/ TtsEnded(i)

SpecTts == InitTts /\ [][NextTts]_vars

-----------------------------------------------------------------------------
(* Properties of the FallbackChainGenerator, checked under SpecGen *)

\* the strings the steps of the chain produce, in rank order, before any
\* deduplication
RECURSIVE ProducedStems(_, _, _)
ProducedStems(term, k, matched) ==
    IF k > Len(SUFFIXES) \/ matched >= MAX_SUFFIX_MATCHES THEN <<>>
    ELSE IF SuffixMatches(term, SUFFIXES[k])
         THEN <<DropLast(term, Len(SUFFIXES[k]))>> \o ProducedStems(term, k + 1, matched + 1)
    ELSE ProducedStems(term, k + 1, matched)

ProducedTerms(adapter, term) ==
    IF Len(term) < MIN_TERM_LENGTH THEN <<term>>
    ELSE LET root(w) == IF adapter = "up" /\ w # <<>> THEN dictionary_form(w) ELSE w
             h == to_hiragana(term)
             k == to_katakana(term)
             siblings == CASE classify(term) = "Romanized" -> <<h, root(h), k, root(k)>>
                           [] classify(term) = "Hiragana" -> <<k>>
                           [] classify(term) = "Katakana" -> <<h>>
                           [] OTHER -> <<>>
         IN  <<term, root(term)>> \o siblings \o ProducedStems(term, 1, 0)

\* the first occurrence of every string of a sequence, in order
RECURSIVE FirstOccurrences(_)
FirstOccurrences(seq) ==
    IF seq = <<>> THEN <<>>
    ELSE LET init == SubSeq(seq, 1, Len(seq) - 1)
             last == seq[Len(seq)]
         IN  IF Contains(init, last) THEN FirstOccurrences(init)
             ELSE Append(FirstOccurrences(init), last)

FirstN(seq, n) == IF Len(seq) > n THEN SubSeq(seq, 1, n) ELSE seq

\* C1: generate(term) returns at most 8 candidates, and the first of them
\* (rank 0) is the Original term exactly as given.
C1_FallbackCap ==
    gphase = "done" =>
        /\ Len(gcands) >= 1
        /\ Len(gcands) <= MAX_CANDIDATES
        /\ gcands[1] = [term |-> gterm, origin |-> "Original"]

\* a chain of four candidates was generated
C1_Witness == gphase = "done" /\ Len(gcands) >= 4

-----------------------------------------------------------------------------
(* Properties of one resolve at a time, checked under SpecResolve *)

\* probe (candidate, source) a comes before probe b
Before(a, b) == a[1] < b[1] \/ (a[1] = b[1] /\ a[2] < b[2])

\* the probes that have a non-empty result
Hits(cands, sources) ==
    {h \in (1..Len(cands)) \X (1..Len(sources)) :
        search(sources[h[2]], cands[h[1]].term) # <<>>}

FirstHit(cands, sources) ==
    IF Hits(cands, sources) = {} THEN <<0, 0>>
    ELSE CHOOSE h \in Hits(cands, sources) :
            \A g \in Hits(cands, sources) : g = h \/ Before(h, g)

\* the outcome of probing the candidates when every source answers
ReferenceOutcome(cands, sources) ==
    LET h == FirstHit(cands, sources)
    IN  IF h = <<0, 0>> THEN NotFound(Terms(cands))
        ELSE Found(search(sources[h[2]], cands[h[1]].term)[1], cands[h[1]].term,
                   Terms(SubSeq(cands, 1, h[1])))

\* the outcome of the request was computed by probing to the end
Computed(p) ==
    \/ req[p].pc \in {"Resolved", "Exhausted"}
    \/ /\ req[p].pc = "Done"
       /\ req[p].terminal \in {"Resolved", "Exhausted"}
       /\ ~hist[p].timedOut

\* C3: resolve returns the result of the first non-empty search in the fixed
\* order, candidates in the outer loop and sources in the inner loop; for one
\* candidate source A is preferred to source B, and the entry returned is the
\* entry of one search, never a merge of two.
C3_FirstMatchWins ==
    \A p \in Requests :
        (Computed(p) /\ hist[p].lastRaise = <<0, 0>>) =>
            /\ req[p].outcome = ReferenceOutcome(req[p].cands, dicts[req[p].lang])
            /\ req[p].outcome.tag = "Found" =>
                  \E s \in 1..Len(dicts[req[p].lang]) :
                      /\ req[p].outcome.entry.sourceId = dicts[req[p].lang][s].id
                      /\ req[p].outcome.entry \in
                            {search(dicts[req[p].lang][s], req[p].outcome.matchedTerm)[i] :
                                i \in 1..Len(search(dicts[req[p].lang][s],
                                                    req[p].outcome.matchedTerm))}

\* the Original was found in source B although source A holds a later candidate
C3_Witness ==
    \E p \in Requests :
        /\ Computed(p) /\ hist[p].lastRaise = <<0, 0>>
        /\ req[p].outcome.tag = "Found"
        /\ req[p].outcome.entry.sourceId = "B"
        /\ req[p].outcome.matchedTerm = req[p].term
        /\ \E c \in 2..Len(req[p].cands) :
              search(dicts[req[p].lang][1], req[p].cands[c].term) # <<>>

HitsAfter(a, cands, sources) == {h \in Hits(cands, sources) : Before(a, h)}

C8_CacheFailureIsMiss ==
    \A p \in Requests :
        (req[p].pc = "Done" /\ req[p].term # <<>> /\ hist[p].cacheDown) =>
            /\ req[p].terminal \in {"Resolved", "Exhausted"}
            /\ req[p].outcome.tag \in {"Found", "NotFound"}
            /\ (~hist[p].timedOut /\ hist[p].lastRaise = <<0, 0>>) =>
                  req[p].outcome =
                      ReferenceOutcome(generate(hist[p].adapter, req[p].term).value,
                                       dicts[req[p].lang])

\* the cache held another outcome for the key, its operations failed, and the
\* call ended with the outcome of probing
C8_Witness ==
    \E p \in Requests :
        /\ req[p].pc = "Done" /\ req[p].term # <<>> /\ hist[p].cacheDown
        /\ ~hist[p].timedOut /\ hist[p].lastRaise = <<0, 0>>
        /\ cache[KeyOf(req[p])].present
        /\ cache[KeyOf(req[p])].outcome # req[p].outcome

-----------------------------------------------------------------------------
(* Properties of calls one after the other with a clock and dictionary
   changes, checked under SpecCache.  Request 1 is the earlier call and
   request 2 the later call. *)

\* two calls with the same arguments have ended, and the dictionaries have not
\* changed since the earlier call was made
SameCallTwice ==
    /\ req[1].pc = "Done" /\ req[2].pc = "Done"
    /\ KeyOf(req[1]) = KeyOf(req[2])
    /\ hist[1].at = dictVer /\ hist[2].at = dictVer

IsCacheCheck(p) == req[p].pc = "CacheCheck" /\ req'[p].pc # "CacheCheck"

\* the entries of the cache carry the TTL of their outcome
C9_TtlOfEntries ==
    /\ NOT_FOUND_TTL < FOUND_TTL
    /\ \A k \in Keys :
          cache[k].present =>
              cache[k].ttl = IF cache[k].outcome.tag = "NotFound"
                             THEN NOT_FOUND_TTL ELSE FOUND_TTL

\* a cached NotFound is served only before its TTL has elapsed
C9_ServedWithinTtl ==
    \A p \in Requests :
        (/\ IsCacheCheck(p)
         /\ req'[p].terminal = "CacheHit"
         /\ req'[p].outcome.tag = "NotFound") =>
            /\ cache[KeyOf(req[p])].present
            /\ req'[p].outcome = cache[KeyOf(req[p])].outcome
            /\ now < cache[KeyOf(req[p])].createdAt + NOT_FOUND_TTL

\* after the TTL of a cached NotFound the cache check goes on to generation
C9_RetriedAfterTtl ==
    \A p \in Requests :
        (/\ IsCacheCheck(p)
         /\ cache[KeyOf(req[p])].present
         /\ cache[KeyOf(req[p])].outcome.tag = "NotFound"
         /\ now >= cache[KeyOf(req[p])].createdAt + NOT_FOUND_TTL) =>
            /\ req'[p].pc = "Generating"
            /\ req'[p].outcome = NoOutcome

\* C9: a cached NotFound is served only until its TTL elapses; the first
\* resolve after that runs generation and probing again, even when no
\* dictionary changed; the TTL of NotFound is strictly shorter than the TTL
\* of Found.
C9_NegativeTtl ==
    /\ []C9_TtlOfEntries
    /\ [][C9_ServedWithinTtl /\ C9_RetriedAfterTtl]_vars

\* a request probes again for a key whose cached NotFound has outlived the
\* NotFound TTL but not the Found TTL, the dictionaries being unchanged
C9_Witness ==
    \E p \in Requests :
        /\ req[p].pc = "Probing"
        /\ dictVer = 0
        /\ cache[KeyOf(req[p])].present
        /\ cache[KeyOf(req[p])].outcome.tag = "NotFound"
        /\ now >= cache[KeyOf(req[p])].createdAt + NOT_FOUND_TTL
        /\ now < cache[KeyOf(req[p])].createdAt + FOUND_TTL

-----------------------------------------------------------------------------
(* Properties of concurrent requests, checked under SpecLive *)

InFlight(p) == req[p].pc \in {"CacheCheck", "Generating", "Probing", "Resolved", "Exhausted"}

\* a complete outcome, as one request computes it for the key
CompleteOutcome(o, key) ==
    /\ o.tag \in {"Found", "NotFound"}
    /\ o.attemptedTerms # <<>>
    /\ o.attemptedTerms[1] = key[2]
    /\ o.tag = "Found" =>
          /\ o.matchedTerm = o.attemptedTerms[Len(o.attemptedTerms)]
          /\ o.entry.headword = o.matchedTerm
          /\ \E s \in 1..Len(dicts[key[1]]) : o.entry.sourceId = dicts[key[1]][s].id
    /\ o.tag = "NotFound" => (o.entry = NoEntry /\ o.matchedTerm = <<>>)

\* every entry of the cache is a complete outcome
C10_NoTornEntry ==
    \A k \in Keys :
        /\ cache[k].present =>
              /\ CompleteOutcome(cache[k].outcome, k)
              /\ cache[k].ttl = TtlOf(cache[k].outcome)
        /\ ~cache[k].present => cache[k] = NoCacheEntry

\* an entry of the cache changes only by the write of one request, which
\* stores the outcome of that request whole, or by an eviction
C10_LastWriteWins ==
    \A k \in Keys :
        cache'[k] # cache[k] =>
            \/ cache'[k] = NoCacheEntry
            \/ \E p \in Requests :
                  /\ req[p].pc \in {"Resolved", "Exhausted"}
                  /\ req'[p].pc = "Done"
                  /\ KeyOf(req[p]) = k
                  /\ cache'[k] = NewEntry(req[p].outcome, now)
                  /\ req'[p].outcome = req[p].outcome

\* C10: under any interleaving of concurrent resolve calls, calls for the
\* same key included, no request blocks forever, and every value that can
\* be read from the cache is a complete outcome written by one request (the
\* last write), never a mixture of two outcomes or a partial outcome.
C10_ConcurrentResolves ==
    /\ []C10_NoTornEntry
    /\ [][C10_LastWriteWins]_vars
    /\ \A p \in Requests : InFlight(p) ~> (req[p].pc = "Done")

\* two requests for one key ended with different outcomes and the cache
\* holds the outcome of one of them
C10_Witness ==
    /\ req[1].pc = "Done" /\ req[2].pc = "Done"
    /\ KeyOf(req[1]) = KeyOf(req[2])
    /\ req[1].terminal \in {"Resolved", "Exhausted"}
    /\ req[2].terminal \in {"Resolved", "Exhausted"}
    /\ req[1].outcome.tag \in {"Found", "NotFound"}
    /\ req[2].outcome.tag \in {"Found", "NotFound"}
    /\ req[1].outcome.attemptedTerms # req[2].outcome.attemptedTerms
    /\ cache[KeyOf(req[1])].present
    /\ cache[KeyOf(req[1])].outcome = req[2].outcome

\* C11: when no source has an entry for the Original term and a source has
\* one for the root form of the term, resolve returns Found with that entry,
\* and matchedTerm is the root form, which differs from the term given.
C11_RootFormFallback ==
    \A p \in Requests :
        LET root == dictionary_form(req[p].term)
            sources == dicts[req[p].lang]
        IN  (/\ Computed(p) /\ hist[p].lastRaise = <<0, 0>>
             /\ hist[p].adapter = "up"
             /\ root # req[p].term
             /\ \A s \in 1..Len(sources) : search(sources[s], req[p].term) = <<>>
             /\ \E s \in 1..Len(sources) : search(sources[s], root) # <<>>) =>
                /\ req[p].outcome.tag = "Found"
                /\ req[p].outcome.matchedTerm = root
                /\ req[p].outcome.matchedTerm # req[p].term
                /\ req[p].outcome.entry.headword = root
                /\ \E s \in 1..Len(sources) :
                      /\ search(sources[s], root) # <<>>
                      /\ req[p].outcome.entry = search(sources[s], root)[1]
                /\ req[p].outcome.attemptedTerms = <<req[p].term, root>>

\* the conjugated term is in no source, its root form is in source B only,
\* and the call ended with the entry of the root form
C11_Witness ==
    \E p \in Requests :
        /\ req[p].pc = "Done" /\ req[p].terminal = "Resolved"
        /\ hist[p].adapter = "up" /\ hist[p].lastRaise = <<0, 0>>
        /\ dictionary_form(req[p].term) # req[p].term
        /\ \A s \in 1..Len(dicts[req[p].lang]) :
              search(dicts[req[p].lang][s], req[p].term) = <<>>
        /\ req[p].outcome.matchedTerm = dictionary_form(req[p].term)
        /\ req[p].outcome.entry.sourceId = "B"

-----------------------------------------------------------------------------
(* Properties of the script siblings, checked under SpecSiblings *)

\* the root form the adapter gives when it answers, the word itself otherwise
RootOf(adapter, w) == IF adapter = "up" /\ w # <<>> THEN dictionary_form(w) ELSE w

\* the script siblings of a term, in the order they are tried
SiblingsOf(adapter, term) ==
    CASE classify(term) = "Romanized" ->
            <<to_hiragana(term), RootOf(adapter, to_hiragana(term)),
              to_katakana(term), RootOf(adapter, to_katakana(term))>>
      [] classify(term) = "Hiragana" -> <<to_katakana(term)>>
      [] classify(term) = "Katakana" -> <<to_hiragana(term)>>
      [] OTHER -> <<>>

\* some source of the language holds the term
Held(lang, t) == \E s \in 1..Len(dicts[lang]) : search(dicts[lang][s], t) # <<>>

-----------------------------------------------------------------------------
(* Properties of the ScriptConverter, checked under SpecConvert *)

\* the conversions applied so far
ConvOps == [i \in 1..Len(conv) |-> conv[i].op]

\* C13: for every katakana-only string k, toHiragana(toKatakana(toHiragana(k)))
\* = toHiragana(k) and toKatakana(toHiragana(k)) = toKatakana(k): the
\* hiragana/katakana conversion is an exact code-point shift that can be
\* undone, so the katakana string comes back from its hiragana image.
C13_KanaRoundTrip ==
    /\ ConvOps = <<"toHiragana", "toKatakana", "toHiragana">> =>
          conv[3].text = conv[1].text
    /\ (Len(conv) >= 2 /\ SubSeq(ConvOps, 1, 2) = <<"toHiragana", "toKatakana">>) =>
          /\ conv[2].text = to_katakana(gterm)
          /\ conv[2].text = gterm
    /\ (Len(conv) >= 1 /\ conv[1].op = "toHiragana") =>
          /\ Len(conv[1].text) = Len(gterm)
          /\ \A i \in 1..Len(gterm) :
                conv[1].text[i] = IF gterm[i] <= KANA_SHIFT_HI + KANA_OFFSET
                                  THEN gterm[i] - KANA_OFFSET ELSE gterm[i]

\* a katakana string with a letter that is shifted and a code point that has
\* no hiragana counterpart went to hiragana, back to katakana and to hiragana
C13_Witness ==
    /\ ConvOps = <<"toHiragana", "toKatakana", "toHiragana">>
    /\ \E i \in 1..Len(gterm) : conv[1].text[i] # gterm[i]
    /\ \E i \in 1..Len(gterm) : conv[1].text[i] = gterm[i]
    /\ conv[3].text # gterm

-----------------------------------------------------------------------------
(* Further properties of one resolve at a time, checked under SpecResolve *)

\* a call with an empty term has ended with InvalidInput and nothing done
C14_EmptyTermState ==
    \A p \in Requests :
        /\ (req[p].pc # "Idle" /\ req[p].term = <<>>) =>
              /\ req[p].pc = "Done"
              /\ req[p].outcome = InvalidInput
              /\ req[p].terminal = "InvalidInput"
              /\ req[p].cands = <<>>
              /\ req[p].attempted = <<>>
              /\ req[p].ci = 0 /\ req[p].si = 0
        /\ req[p].outcome.tag = "InvalidInput" => req[p].term = <<>>
        /\ req[p].terminal # "Error"
        /\ (req[p].pc = "Done" /\ req[p].term # <<>>) =>
              /\ req[p].outcome.tag \in {"Found", "NotFound"}
              /\ req[p].terminal \in {"CacheHit", "Resolved", "Exhausted"}

\* the call with an empty term ends in its first step and leaves the cache
\* as it was
C14_EmptyTermStep ==
    \A p \in Requests :
        (req[p].pc = "Idle" /\ req'[p].pc # "Idle" /\ req'[p].term = <<>>) =>
            /\ req'[p].pc = "Done"
            /\ req'[p].outcome = InvalidInput
            /\ cache' = cache
            /\ cacheOrder' = cacheOrder

C15_TimedOutState ==
    \A p \in Requests :
        /\ hist[p].timedOut =>
              /\ req[p].pc = "Done"
              /\ req[p].terminal = "Exhausted"
              /\ req[p].outcome = NotFound(Terms(SubSeq(req[p].cands, 1, req[p].ci)))
        /\ req[p].outcome.tag = "Found" =>
              /\ req[p].outcome.entry # NoEntry
              /\ req[p].outcome.entry.headword = req[p].outcome.matchedTerm
              /\ \E s \in 1..Len(dicts[req[p].lang]) :
                    /\ search(dicts[req[p].lang][s], req[p].outcome.matchedTerm) # <<>>
                    /\ req[p].outcome.entry =
                          search(dicts[req[p].lang][s], req[p].outcome.matchedTerm)[1]

\* a call that leaves Probing for Done without a result of a search is a
\* timeout: it returns NotFound and stores nothing
C15_TimeoutStep ==
    \A p \in Requests :
        (req[p].pc = "Probing" /\ req'[p].pc = "Done") =>
            /\ req'[p].outcome.tag = "NotFound"
            /\ req'[p].outcome.entry = NoEntry
            /\ req'[p].outcome.attemptedTerms = req[p].attempted
            /\ req'[p].terminal = "Exhausted"
            /\ cache' = cache

\* C15: when the caller's overall timeout fires while a resolution is still
\* probing, the resolver returns the Exhausted (NotFound) outcome, never a
\* Found outcome with a partial or corrupt entry.
C15_TimeoutIsExhausted ==
    /\ []C15_TimedOutState
    /\ [][C15_TimeoutStep]_vars

\* the timeout fired before the probe that would have matched
C15_Witness ==
    \E p \in Requests :
        /\ hist[p].timedOut
        /\ req[p].pc = "Done"
        /\ req[p].outcome.tag = "NotFound"
        /\ \E h \in Hits(req[p].cands, dicts[req[p].lang]) :
              h = <<req[p].ci, req[p].si>> \/ Before(<<req[p].ci, req[p].si>>, h)

\* the keys that have an entry
Stored == {k \in Keys : cache[k].present}

\* the order of the keys other than key is the same in the two sequences
SameOrderBut(a, b, key) == Without(a, key) = Without(b, key)

\* the cache holds at most CacheCapacity entries, and the recency order
\* lists each stored key once
C16_Bounded ==
    /\ Cardinality(Stored) <= CacheCapacity
    /\ Len(cacheOrder) = Cardinality(Stored)
    /\ \A k \in Stored : Contains(cacheOrder, k)

\* a key moves to the most recent end of the order when it is read or
\* written and the order changes in no other way; a key leaves the cache only
\* when a new key is stored in a full cache, and it is the least recently
\* used one
C16_LruStep ==
    /\ \A p \in Requests :
          (req[p].pc = "CacheCheck" /\ req'[p].terminal = "CacheHit") =>
              /\ cacheOrder'[Len(cacheOrder')] = KeyOf(req[p])
              /\ SameOrderBut(cacheOrder, cacheOrder', KeyOf(req[p]))
    /\ \A k \in Keys :
          /\ (~cache[k].present /\ cache'[k].present) =>
              /\ cacheOrder'[Len(cacheOrder')] = k
              /\ Cardinality(Stored) < CacheCapacity =>
                    SameOrderBut(cacheOrder, cacheOrder', k)
              /\ Cardinality(Stored) >= CacheCapacity =>
                    /\ ~cache'[cacheOrder[1]].present
                    /\ cacheOrder' = Append(Tail(cacheOrder), k)
          /\ (cache[k].present /\ cache'[k] # cache[k] /\ cache'[k].present) =>
              /\ cacheOrder'[Len(cacheOrder')] = k
              /\ SameOrderBut(cacheOrder, cacheOrder', k)
          /\ (cache[k].present /\ ~cache'[k].present) =>
              /\ k = cacheOrder[1]
              /\ Cardinality(Stored) = CacheCapacity
              /\ \E n \in Keys : ~cache[n].present /\ cache'[n].present
    /\ cacheOrder' # cacheOrder =>
          \E p \in Requests :
              \/ req[p].pc = "CacheCheck" /\ req'[p].terminal = "CacheHit"
              \/ req[p].pc \in {"Resolved", "Exhausted"} /\ req'[p].pc = "Done"

\* C16: after any sequence of resolve calls the number of entries of the
\* ResolutionCache is at most its configured upper bound, and when storing a
\* new entry would exceed the bound the entry evicted is the least recently
\* used one.
C16_CacheBoundLru ==
    /\ []C16_Bounded
    /\ [][C16_LruStep]_vars

\* the write of a call evicted a key from a full cache
C16_Witness ==
    \E p \in Requests :
        /\ req[p].pc = "Done"
        /\ hist[p].evicted # <<>>
        /\ Cardinality(Stored) = CacheCapacity
        /\ cache[KeyOf(req[p])].present

-----------------------------------------------------------------------------
(* Properties of VoiceRecorder and ConversationPage, checked under          *)
(* SpecRecorder                                                             *)

Recordings == 1..Len(recorders)

RequestsOf(r) == {i \in 1..Len(sent) : sent[i].recording = r}

\* the recordings released by a pointer-up in cancel mode stay discarded:
\* stopped, without an onstop handler, no callback invoked, nothing sent
C17_Discarded ==
    \A r \in Recordings :
        vhist.recordings[r].released = "cancel" =>
            /\ recorders[r].state = "inactive"
            /\ ~recorders[r].onstop.set
            /\ vhist.recordings[r].delivered = "none"
            /\ RequestsOf(r) = {}

\* the pointer-up (or pointer-cancel) in cancel mode: of the steps taken
\* while cancel mode is active, the one that closes the gesture without
\* starting a recording and without dispatching a stop event
ReleasedInCancelMode ==
    /\ vr.isRecording
    /\ vr.isCancelled
    /\ vhist.lastMove.handled
    /\ vhist'.lastMove = NoMove
    /\ vr'.pending = vr.pending
    /\ \A r \in Recordings : recorders[r].stopQueued => recorders'[r].stopQueued

\* that step invokes neither callback, sends nothing, stops the current
\* MediaRecorder if it still records and leaves the not-recording state
C17_ReleaseStep ==
    ReleasedInCancelMode =>
        /\ ~vr'.isRecording
        /\ sent' = sent
        /\ \A r \in Recordings :
              vhist'.recordings[r].delivered = vhist.recordings[r].delivered
        /\ vr.mediaRecorder # 0 =>
              /\ recorders'[vr.mediaRecorder].state = "inactive"
              /\ recorders'[vr.mediaRecorder].onstop = recorders[vr.mediaRecorder].onstop

\* C17: when the pointer is released while cancel mode is active, the
\* recording is discarded: neither onSend nor onCheckSentence is invoked for
\* it, now or later, and the component is in the not-recording state
C17_CancelDiscards == []C17_Discarded /\ [][C17_ReleaseStep]_vars

\* a recording released in cancel mode while a conversation was open, its
\* stop event dispatched
C17_Witness ==
    \E r \in Recordings :
        /\ vhist.recordings[r].released = "cancel"
        /\ ~recorders[r].stopQueued
        /\ page.conversationId
        /\ ~vr.isRecording

\* was recording r released in check mode while the language was Japanese
ReleasedToCheck(r) ==
    /\ vhist.recordings[r].released = "check"
    /\ vhist.recordings[r].language = "ja"

\* every request carries the language of the release of its recording, and
\* check_sentence = true exactly when that release was in check mode while
\* the language was Japanese
C18_Requests ==
    \A i \in 1..Len(sent) :
        /\ sent[i].recording \in Recordings
        /\ sent[i].language = vhist.recordings[sent[i].recording].language
        /\ sent[i].check_sentence <=> ReleasedToCheck(sent[i].recording)
        /\ sent[i].language = "en" => ~sent[i].check_sentence
        /\ vhist.recordings[sent[i].recording].released = "send" => ~sent[i].check_sentence

\* the callback a released recording is delivered to: onCheckSentence exactly
\* for the releases in check mode in Japanese, onSend for the other releases
\* through handlePointerUp; a recording is delivered to one request at most
C18_Callbacks ==
    \A r \in Recordings :
        /\ vhist.recordings[r].delivered = "onCheckSentence" => ReleasedToCheck(r)
        /\ vhist.recordings[r].delivered = "onSend" =>
              /\ vhist.recordings[r].released \in {"check", "send"}
              /\ ~ReleasedToCheck(r)
        /\ vhist.recordings[r].released \in {"check", "send"} /\ ~recorders[r].stopQueued =>
              vhist.recordings[r].delivered # "none"
        /\ Cardinality(RequestsOf(r)) <= 1

\* C18: a conversation message is sent with check_sentence = true exactly
\* when its recording was released in check mode while the language was
\* Japanese; nothing released in English, and nothing released without a
\* slide mode, is sent with check_sentence = true
C18_CheckSentenceFlag == C18_Requests /\ C18_Callbacks

\* one recording released in check mode in Japanese and sent with the flag,
\* another released in check mode in English and sent without it
C18_Witness ==
    \E i, j \in 1..Len(sent) :
        /\ sent[i].check_sentence
        /\ sent[i].language = "ja"
        /\ vhist.recordings[sent[j].recording].released = "check"
        /\ sent[j].language = "en"
        /\ ~sent[j].check_sentence

\* the mode the displacement of a move selects
CancelMode(dx, dy) == dx > 0 /\ Abs(dx) > Abs(dy) /\ dx >= threshold

CheckMode(dx, dy) == dy > 0 /\ Abs(dy) > Abs(dx) /\ dy >= threshold

\* while the recorder records, the two modes are what the displacement of the
\* last move says, whatever the modes were before; before the first move
\* neither is set
C19_ModeOfLastMove ==
    vr.isRecording =>
        IF vhist.lastMove.handled
        THEN /\ vr.isCancelled <=> CancelMode(vhist.lastMove.diffX, vhist.lastMove.diffY)
             /\ vr.isCheckMode <=> CheckMode(vhist.lastMove.diffX, vhist.lastMove.diffY)
        ELSE ~vr.isCancelled /\ ~vr.isCheckMode

\* the displacement is measured from where the pointer went down, and the
\* handler changes nothing of the recorder but the modes and the offsets
C19_MoveStep ==
    vhist'.lastMove.handled /\ vhist'.lastMove # vhist.lastMove =>
        /\ vr.isRecording
        /\ vr' = [vr EXCEPT
                    !.isCancelled = CancelMode(vhist'.lastMove.diffX, vhist'.lastMove.diffY),
                    !.isCheckMode = CheckMode(vhist'.lastMove.diffX, vhist'.lastMove.diffY),
                    !.slideOffsetX = vr'.slideOffsetX,
                    !.slideOffsetY = vr'.slideOffsetY]
        /\ ~(vr'.isCancelled /\ vr'.isCheckMode)

-----------------------------------------------------------------------------
(* Properties of useLongPress, checked under SpecLongPress *)

\* C20: onLongPress is invoked only when a press has been held for the
\* threshold with no release or mouse-leave in between: every call comes at
\* least the threshold after the start that set its timer, and no release
\* or mouse-leave was handled between that start and the call
C20_LongPressOnlyWhenHeld ==
    \A k \in 1..Len(lphist.calls) :
        /\ lphist.calls[k].held >= longPressThreshold
        /\ ~lphist.calls[k].released

-----------------------------------------------------------------------------
(* Properties of ShadowPractice, checked under SpecShadowLive *)

AttemptReleased(a) ==
    /\ Len(sphist.attempts) >= a
    /\ sphist.attempts[a].released

AttemptEnded(a) ==
    /\ Len(sphist.attempts) >= a
    /\ sphist.attempts[a].outcome # "none"
    /\ ~sp.isRecording
    /\ ~sp.isProcessing

\* C21: after the practice button is pressed and the pointer released, the
\* recording stops and the attempt eventually ends with a displayed result
\* or an error alert, isRecording and isProcessing both false again; the
\* same for an attempt started by Try Again
C21_AttemptEnds ==
    \A a \in 1..MaxShadowStarts : AttemptReleased(a) ~> AttemptEnded(a)

-----------------------------------------------------------------------------
(* Properties of the message list and the auto-play setting, checked under  *)
(* SpecConversation                                                         *)

\* C22: a user_audio_url is attached to the user message whose send produced
\* the response that carries it and to no other message, also when another
\* voice message was added before that response arrived
C22_AudioUrlOnOwnMessage ==
    \A i \in 1..Len(page.messages) :
        page.messages[i].audioUrl # 0 =>
            /\ page.messages[i].role = "user"
            /\ page.messages[i].audioUrl = page.messages[i].send

\* on the scenario list the setting is OFF, so that every conversation
\* starts with it OFF
C23_OffBetweenScenarios == ~page.selectedScenario => ~page.autoPlayTTS

\* during a conversation the setting changes only by its button, which is
\* there in Japanese mode only
C23_KeptInConversation ==
    page.selectedScenario /\ page'.selectedScenario /\ page'.autoPlayTTS # page.autoPlayTTS =>
        /\ page.language = "ja"
        /\ page' = [page EXCEPT !.autoPlayTTS = ~@]

\* C23: the auto-play setting keeps its value throughout a conversation and
\* is reset to OFF when the user goes back to the scenario list and starts
\* another conversation
C23_AutoPlayReset == []C23_OffBetweenScenarios /\ [][C23_KeptInConversation]_vars

-----------------------------------------------------------------------------
(* Properties of ChatMessage, checked under SpecChat *)

\* C24: after a long press on a Japanese chat message, of the user or of the
\* AI, the ExplanationModal of that message is on the screen
C24_LongPressOpensExplanation ==
    \A i \in 1..Len(cm) :
        cm[i].isJapanese /\ cm[i].last = "longPress" => ExplanationModalShown(cm[i])

-----------------------------------------------------------------------------
(* Properties of the TranslationPanel, checked under SpecPanel *)

\* the step in which a stopped recording's transcription arrives
TranscriptionArrives == Len(tp'.transcribed) = Len(tp.transcribed) + 1

ArrivedTranscription == tp'.transcribed[Len(tp'.transcribed)]

\* the transcription is placed in the input box
C25_PlacedInInput == TranscriptionArrives => tp'.inputText = ArrivedTranscription

\* a translation request for the transcription is issued in the same step
C25_RequestIssued ==
    TranscriptionArrives => tp'.requests = Append(tp.requests, ArrivedTranscription)

\* C25: when a stopped recording has been transcribed, the transcription is
\* placed in the input box and a translation request for it is issued
\* without the user pressing Translate
C25_AutoTranslate == [][C25_PlacedInInput /\ C25_RequestIssued]_vars

-----------------------------------------------------------------------------
(* Properties of the recording timer, checked under SpecTimer *)

\* during a recording the timer shows the seconds since it started
C26_ShowsElapsed == rt.isRecording => rt.recordingTime = rt.elapsed

\* the timer goes up by one, or down only where a recording ends or starts
C26_TimerStep ==
    rt'.recordingTime # rt.recordingTime =>
        \/ rt'.recordingTime = rt.recordingTime + 1 /\ rt.isRecording /\ rt'.isRecording
        \/ rt'.recordingTime = 0 /\ (~rt.isRecording \/ ~rt'.isRecording)

\* C26: while a recording is in progress the recording timer shows the time
\* elapsed since that recording started; it only increases, by one per
\* second, until the recording ends, and is reset to 0 only when a recording
\* ends or a new one starts
C26_TimerShowsElapsed == []C26_ShowsElapsed /\ [][C26_TimerStep]_vars

-----------------------------------------------------------------------------
(* Properties of the cache hit, checked under SpecResolve *)

SourceIds(lang) == {dicts[lang][i].id : i \in 1..Len(dicts[lang])}

\* a call that ended as a cache hit holds the stored outcome of its own
\* (languageCode, term), has no candidates and has made no probe
C27_HitState ==
    req[1].terminal = "CacheHit" =>
        LET key == <<req[1].lang, req[1].term>>
        IN  /\ cache[key].present /\ ~Expired(cache[key], now)
            /\ req[1].outcome = cache[key].outcome
            /\ req[1].cands = <<>> /\ req[1].attempted = <<>>
            /\ req[1].ci = 0 /\ req[1].si = 0
            /\ hist[1].adapter = "" /\ hist[1].lastRaise = <<0, 0>>
            /\ req[1].outcome.tag = "Found" =>
                   req[1].outcome.entry.sourceId \in SourceIds(req[1].lang)

\* the cache check of a call whose key has a non-expired entry ends the call
\* with that entry and leaves the cache as it is, unless the read failed
C27_HitStep ==
    LET key == <<req[1].lang, req[1].term>>
    IN  req[1].pc = "CacheCheck" /\ req'[1] # req[1]
            /\ CacheGet(cache, key, now).tag # "None" =>
            \/ /\ req'[1].pc = "Done" /\ req'[1].terminal = "CacheHit"
               /\ req'[1].outcome = cache[key].outcome
               /\ cache' = cache
            \/ /\ req'[1].pc = "Generating"
               /\ hist'[1].cacheDown
               /\ cache' = cache

\* C27: when the cache holds a non-expired entry for (languageCode, term),
\* resolve returns that entry without invoking the generator or any source
\* and without modifying the stored outcome; an entry stored under one
\* languageCode is never returned for the same term under another
C27_CacheHitFrame == []C27_HitState /\ [][C27_HitStep]_vars

\* a hit for a term under "zh" while an entry for the same term under "ja"
\* is stored with another outcome
C27_Witness ==
    /\ req[1].terminal = "CacheHit"
    /\ req[1].lang = "zh"
    /\ cache[<<"ja", req[1].term>>].present
    /\ cache[<<"ja", req[1].term>>].outcome # req[1].outcome

-----------------------------------------------------------------------------
(* Termination and the write after a miss, checked under SpecResolve *)

\* the sources configured for the language of request p
NumSources(r) == IF r.lang \in Langs THEN Len(dicts[r.lang]) ELSE 0

\* the search calls resolve had made for a request in state r
SearchCallsOf(r) ==
    IF r.ci = 0 THEN 0
    ELSE (r.ci - 1) * NumSources(r) + r.si - (IF r.pc = "Probing" THEN 1 ELSE 0)

SearchCalls(p) == SearchCallsOf(req[p])

SearchCallsNext(p) == SearchCallsOf(req'[p])

\* how far a call has come
Stage(pc) ==
    CASE pc = "Idle" -> 0
      [] pc = "CacheCheck" -> 1
      [] pc = "Generating" -> 2
      [] pc = "Probing" -> 3
      [] pc \in {"Resolved", "Exhausted"} -> 4
      [] OTHER -> 5

\* at most 8 candidates, and at most 8 x (number of sources) search calls
C28_SearchBound ==
    /\ Len(req[1].cands) <= MAX_CANDIDATES
    /\ SearchCalls(1) <= MAX_CANDIDATES * NumSources(req[1])
    /\ SearchCalls(1) <= Len(req[1].cands) * NumSources(req[1])

\* every step of a call moves it to a later stage, or is one more search
C28_Progress ==
    (req[1].pc \notin {"Idle", "Done"} /\ req'[1] # req[1]) =>
        \/ Stage(req'[1].pc) > Stage(req[1].pc)
        \/ /\ req[1].pc = "Probing" /\ req'[1].pc = "Probing"
           /\ SearchCallsNext(1) = SearchCalls(1) + 1

\* the terminal states as the claim lists them
C28_TerminalAsStated ==
    req[1].pc = "Done" => req[1].terminal \in {"CacheHit", "Resolved", "Exhausted"}

\* the terminal states, the rejected empty term included
C28_Terminal ==
    req[1].pc = "Done" =>
        /\ req[1].term # <<>> => req[1].terminal \in {"CacheHit", "Resolved", "Exhausted"}
        /\ req[1].term = <<>> => req[1].terminal = "InvalidInput"
        /\ req[1].terminal = "Resolved" => req[1].outcome.tag = "Found"
        /\ req[1].terminal = "Exhausted" => req[1].outcome.tag = "NotFound"
        /\ (req[1].terminal = "Exhausted" /\ ~hist[1].timedOut) =>
               req[1].outcome = NotFound(Terms(req[1].cands))

\* the outcome of a call that ended after a miss is in the cache
Written(p) ==
    /\ cache[<<req[p].lang, req[p].term>>].present
    /\ cache[<<req[p].lang, req[p].term>>].outcome = req[p].outcome

C28_WrittenAsStated ==
    (req[1].pc = "Done" /\ req[1].terminal \in {"Resolved", "Exhausted"}) => Written(1)

\* ... unless the cache was unavailable or the caller's timeout ended the call
C28_Written ==
    (req[1].pc = "Done" /\ req[1].terminal \in {"Resolved", "Exhausted"}) =>
        /\ hist[1].stored => Written(1)
        /\ hist[1].timedOut => ~hist[1].stored

\* the cache changes in one step of a call only, the one that ends it after
\* a miss, and there only under the key of the call and the key evicted for it
C28_WriteStep ==
    LET key == <<req[1].lang, req[1].term>>
    IN  /\ cache' # cache =>
              /\ req[1].pc \in {"Resolved", "Exhausted"} /\ req'[1].pc = "Done"
              /\ hist'[1].stored
              /\ \A k \in Keys \ {key} : cache'[k] = cache[k] \/ cache'[k] = NoCacheEntry
        /\ (req[1].pc \in {"Resolved", "Exhausted"} /\ req'[1].pc = "Done") =>
              /\ req'[1].outcome = req[1].outcome
              /\ req'[1].terminal = req[1].pc
              /\ ~hist'[1].stored => (cache' = cache /\ cacheOrder' = cacheOrder)

-----------------------------------------------------------------------------
(* Suffix stripping and the minimum length, checked under SpecGen *)

\* the ranks of the suffix-stripped candidates
Stripped == {i \in 1..Len(gcands) : gcands[i].origin = "SuffixStripped"}

\* the suffixes whose removal from the term leaves a stem long enough
Strippable ==
    {k \in 1..Len(SUFFIXES) :
        /\ Len(gterm) >= Len(SUFFIXES[k]) + 2
        /\ \E stem \in {SubSeq(gterm, 1, Len(gterm) - Len(SUFFIXES[k]))} :
               stem \o SUFFIXES[k] = gterm}

-----------------------------------------------------------------------------
(* Properties of the message list of a conversation, checked under          *)
(* SpecSession                                                              *)

\* the list new starts with the messages of old, in their order, an audio
\* URL attached since then apart
Extends(old, new) ==
    /\ Len(new) >= Len(old)
    /\ \A i \in 1..Len(old) : [new[i] EXCEPT !.audioUrl = 0] = [old[i] EXCEPT !.audioUrl = 0]

\* the step that hands a request to sendMessageMutation has added the user
\* message of that request at the end of the list
C31_UserMessageFirst ==
    \A r \in cs'.sending \ cs.sending :
        cs'.messages = Append(cs.messages, [role |-> "user", conv |-> r.conv,
                                            send |-> r.send, audioUrl |-> 0])

\* a response that changes the list adds one assistant message at its end
C31_ReplyAppendsOne ==
    \A r \in cs.sending \ cs'.sending :
        cs'.messages # cs.messages =>
            /\ Len(cs'.messages) = Len(cs.messages) + 1
            /\ Extends(cs.messages, cs'.messages)
            /\ cs'.messages[Len(cs'.messages)] =
                   [role |-> "assistant", conv |-> r.conv, send |-> r.send, audioUrl |-> 0]

\* while one conversation stays open the list only grows at its end
C31_OpenListGrows ==
    (cs.conversationId # 0 /\ cs'.conversationId = cs.conversationId) =>
        Extends(cs.messages, cs'.messages)

\* a voice message handed over while no conversation id is set changes
\* nothing but the counters
C31_IgnoredWithoutId ==
    (cs'.voices # cs.voices /\ cs.conversationId = 0) =>
        cs' = [cs EXCEPT !.voices = @ + 1, !.ignored = @ + 1]

-----------------------------------------------------------------------------
(* Properties of the API client, checked under SpecClient *)

\* a request carries Bearer <token> exactly when a token was stored as it
\* was sent, and then that token
C32_HeaderIffToken ==
    \A i \in 1..Len(api.requests) :
        /\ api.requests[i].authorization # 0 <=> api.requests[i].tokenThen # 0
        /\ api.requests[i].authorization = api.requests[i].tokenThen

\* every request that ended with an error was rejected to its caller, and
\* no other
C32_ErrorsPropagate ==
    \A i \in 1..Len(api.requests) :
        api.requests[i].rejected <=> api.requests[i].status \in Statuses \ {200}

\* the step of a 401 response leaves no token stored
C32_RemovedOn401 ==
    \A i \in 1..Len(api.requests) :
        (api.requests[i].status = 0 /\ api'.requests[i].status = 401) =>
            /\ api'.token = 0
            /\ api'.requests[i].rejected

\* once removed, the token stays removed until one is stored
C32_AbsentUntilStored ==
    (api.token = 0 /\ api'.token # 0) => api'.stores = api.stores + 1

\* a request made while no token is stored has no Authorization header
C32_RequestStep ==
    (Len(api'.requests) = Len(api.requests) + 1 /\ api.token = 0) =>
        api'.requests[Len(api'.requests)].authorization = 0

\* C32: a request carries Authorization: Bearer <token> exactly when a
\* token is stored at the time it is sent; after a response with status 401
\* the stored token is removed, so later requests are sent without the
\* header until a token is stored again, and the 401 error is still
\* propagated to the caller
C32_AuthHeader ==
    /\ [](C32_HeaderIffToken /\ C32_ErrorsPropagate)
    /\ [][C32_RemovedOn401 /\ C32_AbsentUntilStored /\ C32_RequestStep]_vars

\* a request sent with a token got 401 and was rejected, a later request
\* went out without the header, and one after a new token carries that token
C32_Witness ==
    /\ Len(api.requests) = 3
    /\ api.requests[1].authorization = 1
    /\ api.requests[1].status = 401 /\ api.requests[1].rejected
    /\ api.requests[2].authorization = 0
    /\ api.requests[3].authorization = 2

-----------------------------------------------------------------------------
(* Properties of useVoiceInput in the TranslationPanel, checked under       *)
(* SpecPanel                                                                *)

\* stopRecording rejects exactly when there is no active recording, and the
\* rejection leaves isRecording, isProcessing and error as they were
C33_RejectionStep ==
    /\ (tp'.rejections # tp.rejections) =>
           /\ ~hasActiveRecording(tp)
           /\ tp'.isRecording = tp.isRecording
           /\ tp'.isProcessing = tp.isProcessing
           /\ tp'.error = tp.error
           /\ tp'.recorders = tp.recorders
    /\ (\E r \in 1..Len(tp.recorders) :
            ~tp.recorders[r].onstop /\ tp'.recorders[r].onstop) =>
           /\ hasActiveRecording(tp)
           /\ tp'.rejections = tp.rejections

\* the step in which the promise of an active recording settles leaves
\* isProcessing false
C33_SettleStep ==
    \A r \in tp.recognizing : r \notin tp'.recognizing => ~tp'.isProcessing

\* C33: stopRecording called with no active recording rejects and leaves
\* isRecording, isProcessing and error unchanged; for an active recording
\* isProcessing is false as soon as the returned promise resolves or rejects
C33_StopRecording == [][C33_RejectionStep /\ C33_SettleStep]_vars

\* stopRecording has rejected once, and the promise of an active recording
\* has resolved
C33_Witness ==
    /\ tp.rejections = 1
    /\ tp.transcribed # <<>>
    /\ ~tp.isProcessing

\* the hook is at rest: it shows neither recording nor processing, and no
\* getUserMedia call, stop event or recognition is outstanding
PanelAtRest ==
    /\ ~tp.isRecording
    /\ ~tp.isProcessing
    /\ tp.starting = 0
    /\ tp.recognizing = {}
    /\ \A r \in 1..Len(tp.recorders) : ~tp.recorders[r].stopQueued

\* C39: every microphone stream acquired by startRecording has its tracks
\* stopped once the recording has been stopped: when the hook is at rest no
\* stream is live, also after startRecording was invoked twice in a row
C39_TracksStopped ==
    PanelAtRest => \A r \in 1..Len(tp.recorders) : tp.recorders[r].tracksStopped

-----------------------------------------------------------------------------
(* Leaving a conversation, checked under SpecSession *)

\* C40: on the scenario list conversationId is null and the message list is
\* empty; a response that arrives after leaving sets no conversation id and
\* adds no message, so the id and every message in the list belong to the
\* conversation of the scenario that is selected
C40_OnlyOpenConversation ==
    /\ cs.selectedScenario = 0 => (cs.conversationId = 0 /\ cs.messages = <<>>)
    /\ cs.conversationId \in {0, cs.selectedScenario}
    /\ \A i \in 1..Len(cs.messages) : cs.messages[i].conv = cs.selectedScenario

-----------------------------------------------------------------------------
(* The gesture modes and the callbacks of VoiceRecorder, checked under      *)
(* SpecRecorder                                                             *)

\* C35 as stated: isCancelled and isCheckMode are never both true
C35_Exclusive_AsStated == ~(vr.isCancelled /\ vr.isCheckMode)

\* C35: while the component is recording, isCancelled and isCheckMode are
\* never both true
C35_ExclusiveWhileRecording == vr.isRecording => ~(vr.isCancelled /\ vr.isCheckMode)

\* a recording in check mode, after an earlier recording was ended by a
\* pointer-cancel
C35_Witness ==
    /\ vr.isRecording
    /\ vr.isCheckMode
    /\ \E r \in Recordings : vhist.recordings[r].released = "pointercancel"

\* the recordings a call of cancelRecording stopped: the ones onCancel was
\* invoked for
Cancelled(r) == vhist.recordings[r].released \in {"cancel", "pointercancel"}

\* a cancelled recording has no callback and no request; a callback comes
\* from a release to send or to check, after the one stop event; at most one
\* request is made per recording
C36_PerRecording ==
    /\ \A r \in Recordings :
        /\ Cancelled(r) => vhist.recordings[r].delivered = "none"
        /\ vhist.recordings[r].delivered # "none" =>
               /\ vhist.recordings[r].released \in {"send", "check"}
               /\ ~recorders[r].stopQueued
               /\ recorders[r].state = "inactive"
    /\ \A i \in 1..Len(sent) :
        /\ ~Cancelled(sent[i].recording)
        /\ \A j \in 1..Len(sent) : sent[i].recording = sent[j].recording => i = j

\* a recording is released once, its stop event is dispatched once and its
\* callback is invoked once
C36_Once ==
    \A r \in Recordings :
        /\ vhist.recordings[r].released # "none" =>
               vhist'.recordings[r].released = vhist.recordings[r].released
        /\ recorders[r].state = "inactive" =>
               (recorders'[r].stopQueued => recorders[r].stopQueued)
        /\ vhist.recordings[r].delivered # "none" =>
               vhist'.recordings[r].delivered = vhist.recordings[r].delivered

-----------------------------------------------------------------------------
(* The release of the voice button, checked under SpecPressLive *)

\* the component is not recording, no getUserMedia call is outstanding and
\* the tracks of every stream acquired are stopped
RecorderAtRest ==
    /\ ~vr.isRecording
    /\ vr.pending = 0
    /\ \A r \in Recordings : recorders[r].tracksStopped

\* C34: every pointer-down followed by a pointer-up or pointer-cancel
\* eventually leaves the component not recording with the microphone stream
\* stopped, unless the pointer goes down again first
C34_ReleaseStops ==
    (ptr.presses > 0 /\ ~ptr.down) ~> (ptr.down \/ RecorderAtRest)

-----------------------------------------------------------------------------
(* The calls of onLongPress press by press, checked under SpecLongPress *)

\* the step in which onLongPress is invoked: the press of its timer has not
\* ended, and every earlier call belongs to a press that has ended
C37_CallStep ==
    Len(lphist'.calls) > Len(lphist.calls) =>
        /\ ~lphist'.calls[Len(lphist'.calls)].released
        /\ \A k \in 1..Len(lphist.calls) : lphist.released[lphist.calls[k].timer]

\* C37: onLongPress fires at most once per press and never after the press
\* has ended, also when two start events arrive before any end event
C37_OncePerPress == [][C37_CallStep]_vars

-----------------------------------------------------------------------------
(* The audio of a useTTS instance, checked under SpecTts *)

\* the audios of the instance that are playing
Playing == {i \in 1..Len(tts.audios) : tts.audios[i].state = "playing"}

\* a call of stop leaves no audio of the instance playing and isPlaying false
C38_StopStep ==
    tts'.stops # tts.stops =>
        /\ \A i \in 1..Len(tts'.audios) : tts'.audios[i].state # "playing"
        /\ ~tts'.isPlaying

\* C38: a useTTS instance has at most one audio playing at a time, and after
\* stop() none of its audios is playing and isPlaying is false, also when
\* play() is called again while an earlier play() is generating or loading
C38_OneAudio == [](Cardinality(Playing) <= 1) /\ [][C38_StopStep]_vars

====
